---------------------------- MODULE Spec2Model ----------------------------
(***************************************************************************)
(* TeamCity build-log normalizer of teamcityrun: logparse and cleanupLog.  *)
(*                                                                         *)
(* A log is a sequence of lines, as bufio.Scanner delivers them (without   *)
(* the line terminator).  Lines and texts are strings; the operators on    *)
(* them follow the Go code character by character.  cleanupLog is a state  *)
(* machine that consumes one line (two after a "Test Output" record) per   *)
(* step; the input is chosen line by line from a finite alphabet, which is *)
(* the same as fixing the whole input in advance.                          *)
(***************************************************************************)
EXTENDS Integers, Sequences, FiniteSets, TLC

(***************************************************************************)
(* Strings                                                                 *)
(***************************************************************************)

\* strings.HasPrefix
HasPrefix(s, prefix) ==
    Len(s) >= Len(prefix) /\ SubSeq(s, 1, Len(prefix)) = prefix

\* strings.HasSuffix
HasSuffix(s, suffix) ==
    Len(s) >= Len(suffix) /\ SubSeq(s, Len(s) - Len(suffix) + 1, Len(s)) = suffix

\* s[i] of Go, 0-based, as a one-character string
ByteAt(s, i) == SubSeq(s, i + 1, i + 1)

\* s[n:] of Go
DropBytes(s, n) == SubSeq(s, n + 1, Len(s))

\* the value of a decimal digit, -1 for any other character
DigitVal(c) ==
    CASE c = "0" -> 0 [] c = "1" -> 1 [] c = "2" -> 2 [] c = "3" -> 3
      [] c = "4" -> 4 [] c = "5" -> 5 [] c = "6" -> 6 [] c = "7" -> 7
      [] c = "8" -> 8 [] c = "9" -> 9 [] OTHER -> -1

\* strconv.Atoi on the two-character fields logparse hands it, the error
\* dropped as at the call sites (hour, _ := ...): a failed parse yields 0.
\* Two digits are a number; a sign followed by one digit is a number too.
Atoi(s) ==
    IF Len(s) # 2 THEN 0
    ELSE LET a == ByteAt(s, 0)
             b == ByteAt(s, 1)
         IN  IF DigitVal(a) >= 0 /\ DigitVal(b) >= 0 THEN 10 * DigitVal(a) + DigitVal(b)
             ELSE IF a = "+" /\ DigitVal(b) >= 0 THEN DigitVal(b)
             ELSE IF a = "-" /\ DigitVal(b) >= 0 THEN 0 - DigitVal(b)
             ELSE 0

(***************************************************************************)
(* type testEvent, type logline                                            *)
(***************************************************************************)

\* the zero testEvent; Elapsed is a float64, held as the decimal that denotes
\* it (see Decimal)
ZeroEvent ==
    [Time |-> "", Action |-> "", Package |-> "", Test |-> "",
     Elapsed |-> [neg |-> FALSE, int |-> "0", frac |-> ""], Output |-> ""]

\* ll.testEvent == nil
NoEvent == [isnil |-> TRUE, te |-> ZeroEvent]

\* what logparse makes of a line: status "nil" is the nil return, "panic" the
\* run-time panic of perr, "ok" a logline.  lineno, the position of the line
\* in the input, and path, the context stack right after treeize of the
\* record, are bookkeeping of the model, set by the scan.
NilLine ==
    [status |-> "nil", raw |-> "", time |-> 0, indent |-> 0, tags |-> <<>>,
     text |-> "", addtext |-> "", testEvent |-> NoEvent, lineno |-> 0,
     path |-> <<>>]

PanicLine == [NilLine EXCEPT !.status = "panic"]

(***************************************************************************)
(* logparse                                                                *)
(***************************************************************************)

\* the parser's cursor: rest, and whether perr has panicked
Cursor(rest) == [err |-> FALSE, rest |-> rest]
Perr == [err |-> TRUE, rest |-> ""]

\* expectByte that consumes the byte whatever it is
expectByteAny(p, b) == [p EXCEPT !.rest = DropBytes(p.rest, 1)]

expectByte(p, b) ==
    IF p.err \/ Len(p.rest) = 0 \/ ByteAt(p.rest, 0) # b THEN Perr
    ELSE Cursor(DropBytes(p.rest, 1))

\* the cursor after expectLen(n); the n characters are TakeLen(p, n)
expectLen(p, n) ==
    IF p.err \/ Len(p.rest) < n THEN Perr ELSE Cursor(DropBytes(p.rest, n))

TakeLen(p, n) == IF p.err \/ Len(p.rest) < n THEN "" ELSE SubSeq(p.rest, 1, n)

consumeMaybe(rest, b) ==
    IF Len(rest) > 0 /\ ByteAt(rest, 0) = b THEN DropBytes(rest, 1) ELSE rest

\* the indentation loop: the number of leading tabs
RECURSIVE CountTabs(_)
CountTabs(rest) ==
    IF Len(rest) > 0 /\ ByteAt(rest, 0) = "\t" THEN 1 + CountTabs(DropBytes(rest, 1))
    ELSE 0

\* the inner loop of the tags loop: the least i with rest[i] = ']', or -1
RECURSIVE FindClose(_, _)
FindClose(rest, i) ==
    IF i >= Len(rest) THEN -1
    ELSE IF ByteAt(rest, i) = "]" THEN i
    ELSE FindClose(rest, i + 1)

\* the tags loop: the tags collected and what is left of the line
RECURSIVE ParseTags(_, _)
ParseTags(rest0, tags) ==
    LET rest == consumeMaybe(rest0, " ")
    IN  IF Len(rest) <= 0 \/ ByteAt(rest, 0) # "[" THEN [tags |-> tags, rest |-> rest]
        ELSE LET rest1 == DropBytes(rest, 1)
                 i == FindClose(rest1, 0)
             IN  IF i < 0 THEN [tags |-> tags, rest |-> rest1]
                 ELSE ParseTags(DropBytes(rest1, i + 1),
                                Append(tags, SubSeq(rest1, 1, i)))

logparse(line) ==
    IF Len(line) > 0 /\ ByteAt(line, 0) # "[" THEN NilLine
    ELSE LET p1 == expectByte(Cursor(line), "[")
             hour == Atoi(TakeLen(p1, 2))
             p2 == expectByte(expectLen(p1, 2), ":")
             minute == Atoi(TakeLen(p2, 2))
             p3 == expectByte(expectLen(p2, 2), ":")
             second == Atoi(TakeLen(p3, 2))
             p4 == expectByte(expectLen(p3, 2), "]")
             p5 == expectByte(expectLen(p4, 1), ":")
             indent == CountTabs(p5.rest)
             tg == ParseTags(DropBytes(p5.rest, indent), <<>>)
         IN  IF p5.err THEN PanicLine
             ELSE [status |-> "ok", raw |-> line,
                   time |-> hour * 60 * 60 + minute * 60 + second,
                   indent |-> indent, tags |-> tg.tags, text |-> tg.rest,
                   addtext |-> "", testEvent |-> NoEvent, lineno |-> 0,
                   path |-> <<>>]

(***************************************************************************)
(* json.Unmarshal([]byte(ll.text), te) into a testEvent                    *)
(*                                                                         *)
(* encoding/json is a library, modelled for the JSON texts `go test -json` *)
(* writes and their near misses: one flat object without white space whose *)
(* values are string literals (escapes \n \r \t \" \\ \/) or plain decimal *)
(* numbers of at most 15 digits.  A key selects the field whose name it    *)
(* equals ignoring case, any other key is skipped; a value of the wrong    *)
(* JSON type for its field and any syntax error make err non-nil.          *)
(***************************************************************************)

UpperCase == "ABCDEFGHIJKLMNOPQRSTUVWXYZ"
LowerCase == "abcdefghijklmnopqrstuvwxyz"

\* the lower-case letter of every upper-case letter
LowerOf == [c \in {ByteAt(UpperCase, k) : k \in 0..25} |->
               LET k == CHOOSE j \in 0..25 : ByteAt(UpperCase, j) = c
               IN  ByteAt(LowerCase, k)]

RECURSIVE ToLower(_)
ToLower(s) ==
    IF Len(s) = 0 THEN ""
    ELSE (IF ByteAt(s, 0) \in DOMAIN LowerOf THEN LowerOf[ByteAt(s, 0)] ELSE ByteAt(s, 0))
             \o ToLower(DropBytes(s, 1))

\* a float64 as the decimal that denotes it: sign, integer digits, fraction
\* digits without trailing zeros
Decimal(neg, int, frac) == [neg |-> neg, int |-> int, frac |-> frac]

RECURSIVE StripTrailingZeros(_)
StripTrailingZeros(digits) ==
    IF Len(digits) > 0 /\ ByteAt(digits, Len(digits) - 1) = "0"
    THEN StripTrailingZeros(SubSeq(digits, 1, Len(digits) - 1))
    ELSE digits

\* the result of scanning one JSON value: ok, its kind, its value, and the
\* index after it
JsonFail == [ok |-> FALSE, kind |-> "none", str |-> "", num |-> Decimal(FALSE, "0", ""), next |-> 0]
JsonStr(v, next) == [JsonFail EXCEPT !.ok = TRUE, !.kind = "string", !.str = v, !.next = next]
JsonNum(v, next) == [JsonFail EXCEPT !.ok = TRUE, !.kind = "number", !.num = v, !.next = next]

\* the characters of a string literal from index i on (after the opening quote)
RECURSIVE ScanString(_, _, _)
ScanString(s, i, acc) ==
    IF i >= Len(s) THEN JsonFail
    ELSE LET c == ByteAt(s, i)
         IN  IF c = "\"" THEN JsonStr(acc, i + 1)
             ELSE IF c \in {"\t", "\r", "\n"} THEN JsonFail
             ELSE IF c = "\\"
                  THEN IF i + 1 >= Len(s) THEN JsonFail
                       ELSE LET e == ByteAt(s, i + 1)
                            IN  CASE e = "n" -> ScanString(s, i + 2, acc \o "\n")
                                  [] e = "r" -> ScanString(s, i + 2, acc \o "\r")
                                  [] e = "t" -> ScanString(s, i + 2, acc \o "\t")
                                  [] e = "\"" -> ScanString(s, i + 2, acc \o "\"")
                                  [] e = "\\" -> ScanString(s, i + 2, acc \o "\\")
                                  [] e = "/" -> ScanString(s, i + 2, acc \o "/")
                                  [] OTHER -> JsonFail
             ELSE ScanString(s, i + 1, acc \o c)

\* the index after the run of digits that starts at i
RECURSIVE SkipDigits(_, _)
SkipDigits(s, i) ==
    IF i < Len(s) /\ DigitVal(ByteAt(s, i)) >= 0 THEN SkipDigits(s, i + 1) ELSE i

ScanNumber(s, i) ==
    LET neg == i < Len(s) /\ ByteAt(s, i) = "-"
        a == IF neg THEN i + 1 ELSE i
        b == SkipDigits(s, a)
        int == SubSeq(s, a + 1, b)
        hasFrac == b < Len(s) /\ ByteAt(s, b) = "."
        c == IF hasFrac THEN SkipDigits(s, b + 1) ELSE b
        frac == IF hasFrac THEN SubSeq(s, b + 2, c) ELSE ""
    IN  IF b = a \/ (b - a > 1 /\ ByteAt(s, a) = "0") \/ (hasFrac /\ c = b + 1)
        THEN JsonFail
        ELSE JsonNum(Decimal(neg, int, StripTrailingZeros(frac)), c)

ScanValue(s, i) ==
    IF i >= Len(s) THEN JsonFail
    ELSE IF ByteAt(s, i) = "\"" THEN ScanString(s, i + 1, "")
    ELSE ScanNumber(s, i)

\* the field of testEvent that a key, in lower case, selects ("" for none)
FieldOfLower(k) ==
    CASE k = "time" -> "Time"
      [] k = "action" -> "Action"
      [] k = "package" -> "Package"
      [] k = "test" -> "Test"
      [] k = "elapsed" -> "Elapsed"
      [] k = "output" -> "Output"
      [] OTHER -> ""

FieldOf(key) == FieldOfLower(ToLower(key))

\* r with the value v stored in field f; err is set when v has the wrong
\* JSON kind for f, and a key that selects no field is skipped
StoreField(r, f, v) ==
    IF f = "" THEN r
    ELSE IF f = "Elapsed"
         THEN IF v.kind = "number" THEN [r EXCEPT !.te.Elapsed = v.num]
              ELSE [r EXCEPT !.err = TRUE]
    ELSE IF v.kind = "string" THEN [r EXCEPT !.te = [@ EXCEPT ![f] = v.str]]
    ELSE [r EXCEPT !.err = TRUE]

StoreMember(r, key, v) == StoreField(r, FieldOf(key), v)

\* the members of the object from index i on (i is at a key's opening quote):
\* the key k, then the value v, then "," and the next member or the final "}"
RECURSIVE ScanMembers(_, _, _)
RECURSIVE AfterKey(_, _, _)
RECURSIVE AfterValue(_, _, _, _)
ScanMembers(s, i, r) ==
    IF i >= Len(s) \/ ByteAt(s, i) # "\"" THEN [r EXCEPT !.err = TRUE]
    ELSE AfterKey(s, ScanString(s, i + 1, ""), r)

AfterKey(s, k, r) ==
    IF ~k.ok \/ k.next >= Len(s) \/ ByteAt(s, k.next) # ":"
    THEN [r EXCEPT !.err = TRUE]
    ELSE AfterValue(s, k, ScanValue(s, k.next + 1), r)

AfterValue(s, k, v, r) ==
    IF ~v.ok \/ v.next >= Len(s) THEN [r EXCEPT !.err = TRUE]
    ELSE IF ByteAt(s, v.next) = ","
         THEN ScanMembers(s, v.next + 1, StoreMember(r, k.str, v))
    ELSE IF ByteAt(s, v.next) = "}" /\ v.next + 1 = Len(s)
         THEN StoreMember(r, k.str, v)
    ELSE [r EXCEPT !.err = TRUE]

\* err and te after json.Unmarshal(text, te), te starting as &testEvent{}
jsonUnmarshal(text) ==
    LET r0 == [err |-> FALSE, te |-> ZeroEvent]
    IN  IF Len(text) < 2 \/ ByteAt(text, 0) # "{" THEN [r0 EXCEPT !.err = TRUE]
        ELSE IF text = "{}" THEN r0
        ELSE ScanMembers(text, 1, r0)

\* the number of leading "0" characters of digits
RECURSIVE LeadingZeros(_)
LeadingZeros(digits) ==
    IF Len(digits) > 0 /\ ByteAt(digits, 0) = "0" THEN 1 + LeadingZeros(DropBytes(digits, 1))
    ELSE 0

\* fmt's %g of a float64: the shortest decimal, in exponent form below 1e-4
\* (the exponent form from 1e21 on is beyond the 15 digits modelled)
FormatG(d) ==
    LET sign == IF d.neg THEN "-" ELSE ""
        lz == LeadingZeros(d.frac)
        mant == DropBytes(d.frac, lz)
        exp == lz + 1
    IN  IF d.int = "0" /\ d.frac # "" /\ lz >= 4
        THEN sign \o ByteAt(mant, 0)
                  \o (IF Len(mant) > 1 THEN "." \o DropBytes(mant, 1) ELSE "")
                  \o "e-" \o (IF exp < 10 THEN "0" ELSE "") \o ToString(exp)
        ELSE sign \o d.int \o (IF d.frac = "" THEN "" ELSE "." \o d.frac)

(***************************************************************************)
(* cleanupLog: verbosity levels and modes                                  *)
(***************************************************************************)

verboseNothing == 0
verboseGoTestVerbose == 1
verboseTestOutput == 2
verboseAllText == 3

\* mode, the bit set, as the set of the names of its bits
ModeOf(level) ==
    CASE level = verboseNothing ->
           {"modeShowHeader", "modeShowStep2Top", "modeMassaged",
            "modeSkipBeforeMakeTest", "modeShowOnlyFailed", "modeSkipJson"}
      [] level = verboseGoTestVerbose ->
           {"modeShowHeader", "modeShowStep2Top", "modeShowStep2OutputActions",
            "modeMassaged", "modeSkipJson", "modeSkipBeforeDwz"}
      [] level = verboseTestOutput ->
           {"modeShowHeader", "modeShowRoot", "modeShowStep1", "modeShowStep2",
            "modeShowTestOutput", "modeMassaged", "modeSkipJson"}
      [] OTHER -> {"modeRawText", "modeShowHeader"}

(***************************************************************************)
(* State                                                                   *)
(***************************************************************************)

VARIABLES
    verbose,        \* the verbose argument
    pc,             \* "header", "scan", "done" (returned) or "panic" (aborted)
    inp,            \* the lines s.Scan() has delivered so far
    out,            \* the lines written to standard output so far
    stackMem,       \* the backing array of stack (capacity 20)
    stackLen,       \* len(stack)
    lastTime, first, firstMassaged, afterDwz, afterMakeTest,
    cached,         \* the only-failed buffer
    ll,             \* the logline of the latest iteration of the main scan
    seen            \* history: the loglines the main scan has processed

vars == <<verbose, pc, inp, out, stackMem, stackLen, lastTime, first,
          firstMassaged, afterDwz, afterMakeTest, cached, ll, seen>>

\* cap(stack) of make([]string, 0, 20)
StackCap == 20

\* stack, the slice
stack == SubSeq(stackMem, 1, stackLen)

(***************************************************************************)
(* Output lines.  A line written is kept with its parts: fmt says whether  *)
(* it is a massaged row (dt, a tab, text) or a verbatim line (text).  rule *)
(* and src record which statement wrote it and for which input line; they  *)
(* are bookkeeping of the model and not part of the bytes written.         *)
(***************************************************************************)

Verbatim(text, rule, src) ==
    [fmt |-> "verbatim", dt |-> "", text |-> text, rule |-> rule, src |-> src]

Massaged(dt, text, rule, src) ==
    [fmt |-> "massaged", dt |-> dt, text |-> text, rule |-> rule, src |-> src]

\* the bytes of a written line, without the newline
Printed(row) ==
    IF row.fmt = "massaged" THEN row.dt \o "\t" \o row.text ELSE row.text

\* fmt.Sprintf("% 4d", d): a space for the sign of d >= 0, padded to width 4
RECURSIVE PadLeft(_, _)
PadLeft(s, width) == IF Len(s) >= width THEN s ELSE PadLeft(" " \o s, width)

FormatDelta(d) == PadLeft((IF d >= 0 THEN " " ELSE "") \o ToString(d), 4)

\* the trailing "\n", and a "\r" before it, removed
StripNewline(text) ==
    IF Len(text) > 0 /\ ByteAt(text, Len(text) - 1) = "\n"
    THEN LET t == SubSeq(text, 1, Len(text) - 1)
         IN  IF Len(t) > 0 /\ ByteAt(t, Len(t) - 1) = "\r"
             THEN SubSeq(t, 1, Len(t) - 1)
             ELSE t
    ELSE text

\* the delta column of emitMassaged for a row at time t
DeltaColumn(t, last) == IF t - last > 0 THEN FormatDelta(t - last) ELSE "    "

\* emitMassaged with the reference time left where it was
emitMassagedKeepsReference(es, r, text, rule) ==
    [es EXCEPT !.out = es.out
                       \o (IF es.firstMassaged
                           THEN <<Verbatim("  ΔT\tTEXT", "colhdr", r.lineno)>>
                           ELSE <<>>)
                       \o <<Massaged(DeltaColumn(r.time, es.lastTime),
                                     StripNewline(text), rule, r.lineno)>>,
               !.firstMassaged = FALSE]

\* The writer state the emit closures share: the output, firstMassaged,
\* lastTime and the per-record latch emitted.
\* emitMassaged(text) while ll is the logline r
emitMassaged(es, r, text, rule) ==
    LET hdr == IF es.firstMassaged
               THEN <<Verbatim("  ΔT\tTEXT", "colhdr", r.lineno)>>
               ELSE <<>>
        row == Massaged(DeltaColumn(r.time, es.lastTime), StripNewline(text),
                        rule, r.lineno)
    IN  [es EXCEPT !.out = es.out \o hdr \o <<row>>,
                   !.firstMassaged = FALSE,
                   !.lastTime = r.time]

\* emitText without the test of the latch
emitTextNoLatch(es, r) ==
    emitMassaged([es EXCEPT !.emitted = TRUE], r, r.text, "text")

emitText(es, r) ==
    IF es.emitted THEN es
    ELSE emitMassaged([es EXCEPT !.emitted = TRUE], r, r.text, "text")

emitRaw(es, r) ==
    IF es.emitted THEN es
    ELSE [es EXCEPT !.emitted = TRUE,
                    !.out = es.out \o <<Verbatim(r.raw, "raw", r.lineno)>>]

(***************************************************************************)
(* The context stack                                                       *)
(***************************************************************************)

\* ZeroFill that leaves the slots as they are
ZeroFillSkipped(mem, pl, newLen) == mem

\* for i := pl; i < len(stack); i++ { stack[i] = "" }
ZeroFill(mem, pl, newLen) ==
    [i \in 1..StackCap |-> IF pl < i /\ i <= newLen THEN "" ELSE mem[i]]

\* for i := range ll.tags { stack[len(stack)-len(ll.tags)+i] = ll.tags[i] }
StoreTags(mem, newLen, tags) ==
    [i \in 1..StackCap |->
        IF newLen - Len(tags) < i /\ i <= newLen
        THEN tags[i - (newLen - Len(tags))]
        ELSE mem[i]]

\* treeize(ll) on the stack (mem, len): stack[:ll.indent] panics beyond the
\* capacity, the tag store panics on a negative index
treeize(mem, len, r) ==
    IF r.indent > StackCap \/ Len(r.tags) > r.indent
    THEN [panic |-> TRUE, mem |-> mem, len |-> len]
    ELSE [panic |-> FALSE,
          mem |-> StoreTags(ZeroFill(mem, len, r.indent), r.indent, r.tags),
          len |-> r.indent]

topOfStackIs(stk, s) == Len(stk) > 0 /\ stk[Len(stk)] = s

stackHas(stk, s) == \E i \in 1..Len(stk) : stk[i] = s

\* buildStep := topOfStackIs("Step 2/2") || topOfStackIs("Step 1/1")
buildStep(stk) == topOfStackIs(stk, "Step 2/2") \/ topOfStackIs(stk, "Step 1/1")

(***************************************************************************)
(* One record of the main scan                                             *)
(***************************************************************************)

\* if err == nil { if te.Action != "" { ll.testEvent = te } }
EventOf(d) ==
    IF ~d.err /\ d.te.Action # "" THEN [isnil |-> FALSE, te |-> d.te] ELSE NoEvent

\* DecodeEvent with the primary build step anywhere in the path
DecodeEventAnywhere(stk, r) ==
    IF /\ (stackHas(stk, "Step 2/2") \/ stackHas(stk, "Step 1/1"))
       /\ Len(r.text) > 0 /\ ByteAt(r.text, 0) = "{"
    THEN EventOf(jsonUnmarshal(r.text))
    ELSE NoEvent

\* ll.testEvent after the decode attempt
DecodeEvent(stk, r) ==
    IF buildStep(stk) /\ Len(r.text) > 0 /\ ByteAt(r.text, 0) = "{"
    THEN EventOf(jsonUnmarshal(r.text))
    ELSE NoEvent

\* NextAfterDwz computed from the record alone
NextAfterDwzThisRecord(stk, r, aDwz, aMT) ==
    \/ buildStep(stk) /\ HasPrefix(r.text, "+ dwz --version")
    \/ (~aDwz \/ ~aMT) /\ buildStep(stk) /\ HasPrefix(r.text, "Finding latest patch")

\* the phase flags after the record r
NextAfterDwz(stk, r, aDwz, aMT) ==
    \/ aDwz
    \/ buildStep(stk) /\ HasPrefix(r.text, "+ dwz --version")
    \/ (~aDwz \/ ~aMT) /\ buildStep(stk) /\ HasPrefix(r.text, "Finding latest patch")

\* NextAfterMakeTest with the marker looked for under "Step 2/2" only
NextAfterMakeTestOneSpelling(stk, r, aDwz, aMT) ==
    \/ aMT
    \/ topOfStackIs(stk, "Step 2/2") /\ HasPrefix(r.text, "+ make test")
    \/ (~aDwz \/ ~aMT) /\ buildStep(stk) /\ HasPrefix(r.text, "Finding latest patch")

NextAfterMakeTest(stk, r, aDwz, aMT) ==
    \/ aMT
    \/ buildStep(stk) /\ HasPrefix(r.text, "+ make test")
    \/ (~aDwz \/ ~aMT) /\ buildStep(stk) /\ HasPrefix(r.text, "Finding latest patch")

\* if mode&modeShowRoot != 0 { ... }
RuleShowRoot(mode, stk, es, r) ==
    IF "modeShowRoot" \in mode /\ Len(stk) = 0
    THEN IF "modeMassaged" \in mode THEN emitText(es, r) ELSE emitRaw(es, r)
    ELSE es

\* if mode&modeShowStep1 != 0 { ... }
RuleShowStep1(mode, stk, es, r) ==
    IF "modeShowStep1" \in mode /\ stackHas(stk, "Step 1/2")
    THEN IF "modeMassaged" \in mode THEN emitText(es, r) ELSE emitRaw(es, r)
    ELSE es

\* Step2TopAllows accepting the tag at any depth (stackHas for topOfStackIs)
Step2TopAllowsAncestor(mode, stk) ==
    ~("modeShowStep2Top" \in mode /\ ~stackHas(stk, "Step 2/2"))

\* the innermost-slot restriction of modeShowStep2Top
Step2TopAllows(mode, stk) ==
    ~("modeShowStep2Top" \in mode /\ ~topOfStackIs(stk, "Step 2/2"))

\* PhaseAllows without the modeSkipBeforeMakeTest gate
PhaseAllowsDwzOnly(mode, aDwz, aMT) ==
    ~("modeSkipBeforeDwz" \in mode /\ ~aDwz)

\* PhaseAllows without the modeSkipBeforeDwz gate
PhaseAllowsMakeTestOnly(mode, aDwz, aMT) ==
    ~("modeSkipBeforeMakeTest" \in mode /\ ~aMT)

\* the phase gates of modeSkipBeforeDwz and modeSkipBeforeMakeTest
PhaseAllows(mode, aDwz, aMT) ==
    /\ ~("modeSkipBeforeDwz" \in mode /\ ~aDwz)
    /\ ~("modeSkipBeforeMakeTest" \in mode /\ ~aMT)

\* shouldShow taking every text that starts with '{' for JSON
shouldShowSkipsBraces(mode, stk, r, aDwz, aMT) ==
    /\ PhaseAllows(mode, aDwz, aMT)
    /\ ~("modeSkipJson" \in mode /\ HasPrefix(r.text, "{"))
    /\ Step2TopAllows(mode, stk)

shouldShow(mode, stk, r, aDwz, aMT) ==
    /\ PhaseAllows(mode, aDwz, aMT)
    /\ ~("modeSkipJson" \in mode /\ ~r.testEvent.isnil)
    /\ Step2TopAllows(mode, stk)

\* what the Step 2 rule does with a record it shows
ShowStep2Emit(mode, stk, es, r) ==
    IF "modeMassaged" \in mode
    THEN IF ~topOfStackIs(stk, "Test Output") THEN emitText(es, r) ELSE es
    ELSE IF topOfStackIs(stk, "Test Output")
         THEN IF "modeShowTestOutput" \in mode THEN emitRaw(es, r) ELSE es
         ELSE emitRaw(es, r)

\* RuleShowStep2 looking for the spelling "Step 2/2" only
RuleShowStep2OneSpelling(mode, stk, es, r, aDwz, aMT) ==
    IF /\ ("modeShowStep2" \in mode \/ "modeShowStep2Top" \in mode)
       /\ stackHas(stk, "Step 2/2")
       /\ shouldShow(mode, stk, r, aDwz, aMT)
    THEN ShowStep2Emit(mode, stk, es, r)
    ELSE es

\* if mode&modeShowStep2 != 0 || mode&modeShowStep2Top != 0 { ... }
RuleShowStep2(mode, stk, es, r, aDwz, aMT) ==
    IF /\ ("modeShowStep2" \in mode \/ "modeShowStep2Top" \in mode)
       /\ (stackHas(stk, "Step 2/2") \/ stackHas(stk, "Step 1/1"))
       /\ shouldShow(mode, stk, r, aDwz, aMT)
    THEN ShowStep2Emit(mode, stk, es, r)
    ELSE es

\* if mode&modeShowTestOutput != 0 { ... }
RuleShowTestOutput(mode, stk, es, r) ==
    IF "modeShowTestOutput" \in mode /\ topOfStackIs(stk, "Test Output")
    THEN IF "modeMassaged" \in mode
         THEN emitMassaged(es, r, r.addtext, "addtext")
         ELSE [es EXCEPT !.out = es.out \o <<Verbatim(r.addtext, "addtext", r.lineno)>>]
    ELSE es

\* RuleGo looking for the record under "Step 2/2" only
RuleGoOneSpelling(mode, stk, es, r) ==
    IF "modeShowOnlyFailed" \in mode /\ topOfStackIs(stk, "Step 2/2") /\ HasPrefix(r.text, "Go ")
    THEN emitText(es, r)
    ELSE es

\* if mode&modeShowOnlyFailed != 0 && buildStep && strings.HasPrefix(ll.text, "Go ")
RuleGo(mode, stk, es, r) ==
    IF "modeShowOnlyFailed" \in mode /\ buildStep(stk) /\ HasPrefix(r.text, "Go ")
    THEN emitText(es, r)
    ELSE es

\* if mode&modeShowStep2OutputActions != 0 && ll.testEvent != nil { ... }
RuleOutputActions(mode, es, r) ==
    IF /\ "modeShowStep2OutputActions" \in mode
       /\ ~r.testEvent.isnil
       /\ r.testEvent.te.Action = "output"
    THEN emitMassaged(es, r, r.testEvent.te.Output, "output")
    ELSE es

\* the FAIL row of the levels without the only-failed aggregation
RuleFailRow(mode, es, r) ==
    IF /\ "modeShowOnlyFailed" \notin mode
       /\ ~r.testEvent.isnil
       /\ r.testEvent.te.Action = "fail"
       /\ "modeShowStep2OutputActions" \notin mode
    THEN emitMassaged(es, r, "FAIL\t" \o r.testEvent.te.Package, "failrow")
    ELSE es

\* dumpCached walking the buffer from its newest entry
RECURSIVE dumpCachedNewestFirst(_, _)
dumpCachedNewestFirst(es, buf) ==
    IF buf = <<>> THEN es
    ELSE dumpCachedNewestFirst(
             IF buf[Len(buf)].testEvent.te.Action = "output"
             THEN emitMassaged(es, buf[Len(buf)], buf[Len(buf)].testEvent.te.Output, "flush")
             ELSE es,
             SubSeq(buf, 1, Len(buf) - 1))

\* dumpCached's loop over buf: every buffered "output" event is written, ll
\* being the buffered logline while it is
RECURSIVE dumpCached(_, _)
dumpCached(es, buf) ==
    IF buf = <<>> THEN es
    ELSE dumpCached(IF Head(buf).testEvent.te.Action = "output"
                    THEN emitMassaged(es, Head(buf), Head(buf).testEvent.te.Output, "flush")
                    ELSE es,
                    Tail(buf))

\* PackageEvent whose "fail" case forgets cached = cached[:0]
PackageEventFailKeeps(es, r, buf) ==
    LET te == r.testEvent.te
    IN  CASE te.Action = "pass" ->
               [es |-> emitMassaged(es, r, te.Package \o "\t" \o FormatG(te.Elapsed) \o "s", "result"),
                cached |-> <<>>]
          [] te.Action = "skip" ->
               [es |-> emitMassaged(es, r, te.Package \o "\t[no test files]", "result"),
                cached |-> <<>>]
          [] te.Action = "output" ->
               [es |-> es, cached |-> buf]
          [] te.Action = "fail" ->
               [es |-> emitMassaged(dumpCached(es, buf), r, te.Package \o "\tFAIL", "result"),
                cached |-> SubSeq(buf, 1, Len(buf) - 1)]
          [] OTHER ->
               [es |-> emitMassaged(es, r, te.Package \o "\t" \o te.Action, "result"),
                cached |-> <<>>]

\* PackageEvent whose "pass" case forgets cached = cached[:0]
PackageEventPassKeeps(es, r, buf) ==
    LET te == r.testEvent.te
    IN  CASE te.Action = "pass" ->
               [es |-> emitMassaged(es, r, te.Package \o "\t" \o FormatG(te.Elapsed) \o "s", "result"),
                cached |-> buf]
          [] te.Action = "skip" ->
               [es |-> emitMassaged(es, r, te.Package \o "\t[no test files]", "result"),
                cached |-> <<>>]
          [] te.Action = "output" ->
               [es |-> es, cached |-> buf]
          [] te.Action = "fail" ->
               [es |-> emitMassaged(dumpCached(es, buf), r, te.Package \o "\tFAIL", "result"),
                cached |-> <<>>]
          [] OTHER ->
               [es |-> emitMassaged(es, r, te.Package \o "\t" \o te.Action, "result"),
                cached |-> <<>>]

\* the switch for an event without Test, buf being cached after the append
PackageEvent(es, r, buf) ==
    LET te == r.testEvent.te
    IN  CASE te.Action = "pass" ->
               [es |-> emitMassaged(es, r, te.Package \o "\t" \o FormatG(te.Elapsed) \o "s", "result"),
                cached |-> <<>>]
          [] te.Action = "skip" ->
               [es |-> emitMassaged(es, r, te.Package \o "\t[no test files]", "result"),
                cached |-> <<>>]
          [] te.Action = "output" ->
               [es |-> es, cached |-> buf]
          [] te.Action = "fail" ->
               [es |-> emitMassaged(dumpCached(es, buf), r, te.Package \o "\tFAIL", "result"),
                cached |-> <<>>]
          [] OTHER ->
               [es |-> emitMassaged(es, r, te.Package \o "\t" \o te.Action, "result"),
                cached |-> <<>>]

\* TestCaseEvent whose "fail" case flushes without emptying the buffer
TestCaseEventFailKeeps(es, r, buf) ==
    LET te == r.testEvent.te
    IN  CASE te.Action = "pass" -> [es |-> es, cached |-> <<>>]
          [] te.Action = "fail" -> [es |-> dumpCached(es, buf), cached |-> buf]
          [] OTHER -> [es |-> es, cached |-> buf]

\* the switch for an event of one test
TestCaseEvent(es, r, buf) ==
    LET te == r.testEvent.te
    IN  CASE te.Action = "pass" -> [es |-> es, cached |-> <<>>]
          [] te.Action = "fail" -> [es |-> dumpCached(es, buf), cached |-> <<>>]
          [] OTHER -> [es |-> es, cached |-> buf]

\* if mode&modeShowOnlyFailed != 0 && ll.testEvent != nil { ... }
RuleOnlyFailed(mode, es, r, buf) ==
    IF "modeShowOnlyFailed" \in mode /\ ~r.testEvent.isnil
    THEN IF r.testEvent.te.Test = ""
         THEN PackageEvent(es, r, Append(buf, r))
         ELSE TestCaseEvent(es, r, Append(buf, r))
    ELSE [es |-> es, cached |-> buf]

\* the display rules of one iteration, in the order of the code, for the
\* logline r with the stack stk and the flags as updated by r
Display(mode, stk, es, r, aDwz, aMT, buf) ==
    LET e1 == RuleShowRoot(mode, stk, es, r)
        e2 == RuleShowStep1(mode, stk, e1, r)
        e3 == RuleShowStep2(mode, stk, e2, r, aDwz, aMT)
        e4 == RuleShowTestOutput(mode, stk, e3, r)
        e5 == RuleGo(mode, stk, e4, r)
        e6 == RuleOutputActions(mode, e5, r)
        e7 == RuleFailRow(mode, e6, r)
    IN  RuleOnlyFailed(mode, e7, r, buf)

(***************************************************************************)
(* cleanupLog as a state machine                                           *)
(***************************************************************************)

\* the longest input explored
MaxLines == 4

mode == ModeOf(verbose)

InitAt(levels) ==
    /\ verbose \in levels
    /\ pc = "header"
    /\ inp = <<>>
    /\ out = <<>>
    /\ stackMem = [i \in 1..StackCap |-> ""]
    /\ stackLen = 0
    /\ lastTime = 0
    /\ first = TRUE
    /\ firstMassaged = TRUE
    /\ afterDwz = FALSE
    /\ afterMakeTest = FALSE
    /\ cached = <<>>
    /\ ll = NilLine
    /\ seen = <<>>

\* s.Scan() can deliver n more lines
CanRead(n) == Len(inp) + n <= MaxLines

\* HeaderLine with the line printed and the scanner not advanced
HeaderLinePeeks(l) ==
    /\ pc = "header"
    /\ CanRead(1)
    /\ out' = IF "modeShowHeader" \in mode
              THEN Append(out, Verbatim(l, "header", Len(inp) + 1))
              ELSE out
    /\ UNCHANGED <<verbose, pc, inp, stackMem, stackLen, lastTime, first,
                   firstMassaged, afterDwz, afterMakeTest, cached, ll, seen>>

\* HeaderLine with the header ending at the first record line as well
HeaderLineEndsAtRecord(l) ==
    /\ pc = "header"
    /\ CanRead(1)
    /\ inp' = Append(inp, l)
    /\ out' = IF "modeShowHeader" \in mode
              THEN Append(out, Verbatim(l, "header", Len(inp) + 1))
              ELSE out
    /\ pc' = IF l = "" \/ HasPrefix(l, "[") THEN "scan" ELSE "header"
    /\ UNCHANGED <<verbose, stackMem, stackLen, lastTime, first, firstMassaged,
                   afterDwz, afterMakeTest, cached, ll, seen>>

\* the header loop: one line, echoed, the empty line ending the header
HeaderLine(l) ==
    /\ pc = "header"
    /\ CanRead(1)
    /\ inp' = Append(inp, l)
    /\ out' = IF "modeShowHeader" \in mode
              THEN Append(out, Verbatim(l, "header", Len(inp) + 1))
              ELSE out
    /\ pc' = IF l = "" THEN "scan" ELSE "header"
    /\ UNCHANGED <<verbose, stackMem, stackLen, lastTime, first, firstMassaged,
                   afterDwz, afterMakeTest, cached, ll, seen>>

\* s.Scan() returns false: the header loop and the main scan both end
EndOfInput ==
    /\ pc \in {"header", "scan"}
    /\ pc' = "done"
    /\ UNCHANGED <<verbose, inp, out, stackMem, stackLen, lastTime, first,
                   firstMassaged, afterDwz, afterMakeTest, cached, ll, seen>>

\* RawLine echoing only the lines that look like records
RawLineRecordsOnly(l) ==
    /\ pc = "scan"
    /\ "modeRawText" \in mode
    /\ CanRead(1)
    /\ inp' = Append(inp, l)
    /\ out' = IF HasPrefix(l, "[")
              THEN Append(out, Verbatim(l, "raw", Len(inp) + 1))
              ELSE out
    /\ UNCHANGED <<verbose, pc, stackMem, stackLen, lastTime, first, firstMassaged,
                   afterDwz, afterMakeTest, cached, ll, seen>>

\* the main scan in raw mode: the line is echoed
RawLine(l) ==
    /\ pc = "scan"
    /\ "modeRawText" \in mode
    /\ CanRead(1)
    /\ inp' = Append(inp, l)
    /\ out' = Append(out, Verbatim(l, "raw", Len(inp) + 1))
    /\ UNCHANGED <<verbose, pc, stackMem, stackLen, lastTime, first, firstMassaged,
                   afterDwz, afterMakeTest, cached, ll, seen>>

IsTestsProcessed(l) == HasSuffix(l, " tests processed.")
IsCurrentTime(l) == HasPrefix(l, "Current time: ")

\* the main scan, not raw, has a line to look at
Scanning == pc = "scan" /\ "modeRawText" \notin mode

\* TestsProcessed that echoes the line and goes on scanning
TestsProcessedContinues(l) ==
    /\ Scanning
    /\ CanRead(1)
    /\ IsTestsProcessed(l)
    /\ inp' = Append(inp, l)
    /\ out' = IF "modeShowHeader" \in mode
              THEN Append(out, Verbatim(l, "sentinel", Len(inp) + 1))
              ELSE out
    /\ UNCHANGED <<verbose, pc, stackMem, stackLen, lastTime, first, firstMassaged,
                   afterDwz, afterMakeTest, cached, ll, seen>>

\* the sentinel " tests processed.": echoed under modeShowHeader, then break
TestsProcessed(l) ==
    /\ Scanning
    /\ CanRead(1)
    /\ IsTestsProcessed(l)
    /\ inp' = Append(inp, l)
    /\ out' = IF "modeShowHeader" \in mode
              THEN Append(out, Verbatim(l, "sentinel", Len(inp) + 1))
              ELSE out
    /\ pc' = "done"
    /\ UNCHANGED <<verbose, stackMem, stackLen, lastTime, first, firstMassaged,
                   afterDwz, afterMakeTest, cached, ll, seen>>

\* the sentinel "Current time: ": echoed, then break
CurrentTime(l) ==
    /\ Scanning
    /\ CanRead(1)
    /\ ~IsTestsProcessed(l)
    /\ IsCurrentTime(l)
    /\ inp' = Append(inp, l)
    /\ out' = Append(out, Verbatim(l, "sentinel", Len(inp) + 1))
    /\ pc' = "done"
    /\ UNCHANGED <<verbose, stackMem, stackLen, lastTime, first, firstMassaged,
                   afterDwz, afterMakeTest, cached, ll, seen>>

\* the line reaches logparse
Parsed(l) == Scanning /\ ~IsTestsProcessed(l) /\ ~IsCurrentTime(l)

\* UnparsableLine that writes the line out
UnparsableLineEchoed(l) ==
    /\ Parsed(l)
    /\ CanRead(1)
    /\ logparse(l).status = "nil"
    /\ inp' = Append(inp, l)
    /\ ll' = NilLine
    /\ out' = Append(out, Verbatim(l, "raw", Len(inp) + 1))
    /\ UNCHANGED <<verbose, pc, stackMem, stackLen, lastTime, first,
                   firstMassaged, afterDwz, afterMakeTest, cached, seen>>

\* logparse returns nil: continue
UnparsableLine(l) ==
    /\ Parsed(l)
    /\ CanRead(1)
    /\ logparse(l).status = "nil"
    /\ inp' = Append(inp, l)
    /\ ll' = NilLine
    /\ UNCHANGED <<verbose, pc, out, stackMem, stackLen, lastTime, first,
                   firstMassaged, afterDwz, afterMakeTest, cached, seen>>

\* logparse panics: the run aborts
ParsePanic(l) ==
    /\ Parsed(l)
    /\ CanRead(1)
    /\ logparse(l).status = "panic"
    /\ inp' = Append(inp, l)
    /\ pc' = "panic"
    /\ UNCHANGED <<verbose, out, stackMem, stackLen, lastTime, first,
                   firstMassaged, afterDwz, afterMakeTest, cached, ll, seen>>

\* treeize panics: the run aborts
TreeizePanic(l) ==
    /\ Parsed(l)
    /\ CanRead(1)
    /\ logparse(l).status = "ok"
    /\ treeize(stackMem, stackLen, logparse(l)).panic
    /\ inp' = Append(inp, l)
    /\ pc' = "panic"
    /\ UNCHANGED <<verbose, out, stackMem, stackLen, lastTime, first,
                   firstMassaged, afterDwz, afterMakeTest, cached, ll, seen>>

\* the stack after treeize of the record of line l
StackAfter(l) ==
    LET t == treeize(stackMem, stackLen, logparse(l))
    IN  SubSeq(t.mem, 1, t.len)

\* line l is a record that treeize accepts
IsRecord(l) ==
    /\ logparse(l).status = "ok"
    /\ ~treeize(stackMem, stackLen, logparse(l)).panic

\* the variables of cleanupLog as one value, nread lines having been read
Current ==
    [verbose |-> verbose, pc |-> pc, nread |-> Len(inp), out |-> out,
     stackMem |-> stackMem, stackLen |-> stackLen, lastTime |-> lastTime,
     first |-> first, firstMassaged |-> firstMassaged, afterDwz |-> afterDwz,
     afterMakeTest |-> afterMakeTest, cached |-> cached, seen |-> seen]

\* One iteration of the main scan for a record, from the state st, in the
\* order of the code, each step handing its results to the next: the values
\* of the variables after the display rules d ...
AfterDisplay(t, r, aDwz, aMT, d) ==
    [mem |-> t.mem, len |-> t.len, ll |-> r, afterDwz |-> aDwz,
     afterMakeTest |-> aMT, out |-> d.es.out,
     firstMassaged |-> d.es.firstMassaged, lastTime |-> d.es.lastTime,
     cached |-> d.cached]

\* ... the display rules after the phase flags (lastTime starts as this
\* record's time on the first record)
AfterFlags(st, t, stk, r, aDwz, aMT) ==
    AfterDisplay(t, r, aDwz, aMT,
                 Display(ModeOf(st.verbose), stk,
                         [out |-> st.out, firstMassaged |-> st.firstMassaged,
                          lastTime |-> IF st.first THEN r.time ELSE st.lastTime,
                          emitted |-> FALSE],
                         r, aDwz, aMT, st.cached))

\* ... the phase flags after the event decode
AfterDecode(st, t, stk, r) ==
    AfterFlags(st, t, stk, r,
               NextAfterDwz(stk, r, st.afterDwz, st.afterMakeTest),
               NextAfterMakeTest(stk, r, st.afterDwz, st.afterMakeTest))

\* ... the event decode after treeize
AfterTreeize(st, t, stk, r0) ==
    AfterDecode(st, t, stk,
                [r0 EXCEPT !.testEvent = DecodeEvent(stk, r0), !.path = stk])

\* ... and treeize, for the logline r0 that logparse returned
IterationOf(st, t, r0) == AfterTreeize(st, t, SubSeq(t.mem, 1, t.len), r0)

\* the iteration for line l, with addtext the line read ahead
IterationResult(st, l, addtext) ==
    IterationOf(st, treeize(st.stackMem, st.stackLen, logparse(l)),
                [logparse(l) EXCEPT !.addtext = addtext, !.lineno = st.nread + 1])

Iteration(l, addtext) ==
    \E n \in {IterationResult(Current, l, addtext)} :
        /\ stackMem' = n.mem
        /\ stackLen' = n.len
        /\ ll' = n.ll
        /\ afterDwz' = n.afterDwz
        /\ afterMakeTest' = n.afterMakeTest
        /\ first' = FALSE
        /\ out' = n.out
        /\ firstMassaged' = n.firstMassaged
        /\ lastTime' = n.lastTime
        /\ cached' = n.cached
        /\ seen' = Append(seen, n.ll)
        /\ UNCHANGED <<verbose, pc>>

\* a record whose innermost slot is not "Test Output"
Record(l) ==
    /\ Parsed(l)
    /\ CanRead(1)
    /\ IsRecord(l)
    /\ ~topOfStackIs(StackAfter(l), "Test Output")
    /\ inp' = Append(inp, l)
    /\ Iteration(l, "")

\* TestOutputRecord with the sentinel tests applied to the line read ahead
TestOutputRecordSentinelAhead(l, next) ==
    /\ Parsed(l)
    /\ CanRead(2)
    /\ IsRecord(l)
    /\ topOfStackIs(StackAfter(l), "Test Output")
    /\ inp' = inp \o <<l, next>>
    /\ \E n \in {IterationResult(Current, l, next)} :
        /\ stackMem' = n.mem
        /\ stackLen' = n.len
        /\ ll' = n.ll
        /\ afterDwz' = n.afterDwz
        /\ afterMakeTest' = n.afterMakeTest
        /\ first' = FALSE
        /\ out' = n.out
        /\ firstMassaged' = n.firstMassaged
        /\ lastTime' = n.lastTime
        /\ cached' = n.cached
        /\ seen' = Append(seen, n.ll)
    /\ pc' = IF IsTestsProcessed(next) \/ IsCurrentTime(next) THEN "done" ELSE pc
    /\ UNCHANGED verbose

\* TestOutputRecord without the look-ahead
TestOutputRecordAlone(l, next) ==
    /\ Parsed(l)
    /\ CanRead(1)
    /\ IsRecord(l)
    /\ topOfStackIs(StackAfter(l), "Test Output")
    /\ inp' = Append(inp, l)
    /\ Iteration(l, "")

\* a record whose innermost slot is "Test Output": the next line is read as
\* its addtext
TestOutputRecord(l, next) ==
    /\ Parsed(l)
    /\ CanRead(2)
    /\ IsRecord(l)
    /\ topOfStackIs(StackAfter(l), "Test Output")
    /\ inp' = inp \o <<l, next>>
    /\ Iteration(l, next)

\* ... and there is no next line: panic("test output not followed by a line")
TestOutputPanic(l) ==
    /\ Parsed(l)
    /\ CanRead(1)
    /\ IsRecord(l)
    /\ topOfStackIs(StackAfter(l), "Test Output")
    /\ inp' = Append(inp, l)
    /\ stackMem' = treeize(stackMem, stackLen, logparse(l)).mem
    /\ stackLen' = treeize(stackMem, stackLen, logparse(l)).len
    /\ pc' = "panic"
    /\ UNCHANGED <<verbose, out, lastTime, first, firstMassaged, afterDwz,
                   afterMakeTest, cached, ll, seen>>

(***************************************************************************)
(* cleanupLog as a function of the level and the whole input               *)
(***************************************************************************)

\* the state before the header loop
StartState(level) ==
    [verbose |-> level, pc |-> "header", nread |-> 0, out |-> <<>>,
     stackMem |-> [i \in 1..StackCap |-> ""], stackLen |-> 0, lastTime |-> 0,
     first |-> TRUE, firstMassaged |-> TRUE, afterDwz |-> FALSE,
     afterMakeTest |-> FALSE, cached |-> <<>>, seen |-> <<>>]

\* the state after an iteration with result n that read k lines
Iterated(st, n, k) ==
    [st EXCEPT !.nread = st.nread + k, !.out = n.out, !.stackMem = n.mem,
               !.stackLen = n.len, !.lastTime = n.lastTime, !.first = FALSE,
               !.firstMassaged = n.firstMassaged, !.afterDwz = n.afterDwz,
               !.afterMakeTest = n.afterMakeTest, !.cached = n.cached,
               !.seen = Append(st.seen, n.ll)]

\* the state after a line that is echoed as it is
EchoedLine(st, l, rule, pcAfter) ==
    [st EXCEPT !.nread = st.nread + 1, !.pc = pcAfter,
               !.out = Append(st.out, Verbatim(l, rule, st.nread + 1))]

\* the state after a line that is read and leaves no trace
SkippedLine(st, pcAfter) == [st EXCEPT !.nread = st.nread + 1, !.pc = pcAfter]

RECURSIVE mainLoop(_, _)
\* a record t = treeize(ll) of line l: the look-ahead of "Test Output", then
\* the rest of the iteration
mainRecord(st, t, l, rest) ==
    IF topOfStackIs(SubSeq(t.mem, 1, t.len), "Test Output")
    THEN IF rest = <<>>
         THEN [SkippedLine(st, "panic") EXCEPT !.stackMem = t.mem, !.stackLen = t.len]
         ELSE mainLoop(Iterated(st, IterationResult(st, l, Head(rest)), 2), Tail(rest))
    ELSE mainLoop(Iterated(st, IterationResult(st, l, ""), 1), rest)

\* a line that reached logparse, which returned r
mainParsed(st, r, l, rest) ==
    CASE r.status = "nil" -> mainLoop(SkippedLine(st, "scan"), rest)
      [] r.status = "panic" -> SkippedLine(st, "panic")
      [] OTHER ->
            IF treeize(st.stackMem, st.stackLen, r).panic
            THEN SkippedLine(st, "panic")
            ELSE mainRecord(st, treeize(st.stackMem, st.stackLen, r), l, rest)

\* one line l of the main loop, rest being the lines after it
mainLine(st, l, rest) ==
    CASE "modeRawText" \in ModeOf(st.verbose) ->
            mainLoop(EchoedLine(st, l, "raw", "scan"), rest)
      [] OTHER ->
            IF IsTestsProcessed(l)
            THEN IF "modeShowHeader" \in ModeOf(st.verbose)
                 THEN EchoedLine(st, l, "sentinel", "done")
                 ELSE SkippedLine(st, "done")
            ELSE IF IsCurrentTime(l)
            THEN EchoedLine(st, l, "sentinel", "done")
            ELSE mainParsed(st, logparse(l), l, rest)

\* for s.Scan() { ... } of the main scan
mainLoop(st, lines) ==
    IF lines = <<>> THEN [st EXCEPT !.pc = "done"]
    ELSE mainLine(st, Head(lines), Tail(lines))

\* for s.Scan() { ... } of the header
RECURSIVE headerLoop(_, _)
headerLoop(st, lines) ==
    IF lines = <<>> THEN [st EXCEPT !.pc = "done"]
    ELSE IF Head(lines) = ""
    THEN mainLoop(IF "modeShowHeader" \in ModeOf(st.verbose)
                  THEN EchoedLine(st, "", "header", "scan")
                  ELSE SkippedLine(st, "scan"),
                  Tail(lines))
    ELSE headerLoop(IF "modeShowHeader" \in ModeOf(st.verbose)
                    THEN EchoedLine(st, Head(lines), "header", "header")
                    ELSE SkippedLine(st, "header"),
                    Tail(lines))

\* the run of cleanupLog(logbody, verbose) on the lines of logbody
cleanupLog(level, lines) == headerLoop(StartState(level), lines)

(***************************************************************************)
(* Inputs                                                                  *)
(***************************************************************************)

\* a log line of a record: time stamp ts, no flag, indent tabs, tags, text
RECURSIVE Tabs(_)
Tabs(n) == IF n = 0 THEN "" ELSE "\t" \o Tabs(n - 1)

Rec(ts, indent, tags, text) == "[" \o ts \o "] :" \o Tabs(indent) \o tags \o " " \o text

\* the JSON text of a test event, as `go test -json` writes it
EvJSON(action, pkg, test, more) ==
    "{\"Action\":\"" \o action \o "\",\"Package\":\"" \o pkg \o "\""
        \o (IF test = "" THEN "" ELSE ",\"Test\":\"" \o test \o "\"")
        \o more \o "}"

\* an event line inside the primary build step
EvLine(ts, action, pkg, test, more) ==
    Rec(ts, 1, " [Step 2/2]", EvJSON(action, pkg, test, more))

HeaderLines == {"", "Build log"}

\* events of two packages: A with the test T, B with the test U
SilentLines ==
    { EvLine("10:00:00", "output", "A", "", ",\"Output\":\"x\\n\""),
      EvLine("10:00:03", "output", "A", "T", ",\"Output\":\"y\\r\\n\""),
      EvLine("10:00:03", "output", "B", "U", ",\"Output\":\"z\""),
      EvLine("10:00:04", "run", "A", "T", ""),
      EvLine("10:00:05", "pass", "A", "T", ",\"Elapsed\":0.50"),
      EvLine("10:00:05", "pass", "B", "U", ""),
      EvLine("10:00:07", "fail", "A", "T", ",\"Elapsed\":0.5"),
      EvLine("10:00:07", "pass", "A", "", ",\"Elapsed\":1.5"),
      EvLine("10:00:07", "fail", "A", "", ",\"Elapsed\":2"),
      EvLine("10:00:07", "fail", "B", "", ""),
      EvLine("10:00:07", "skip", "A", "", ""),
      EvLine("10:00:09", "start", "B", "", "") }

(***************************************************************************)
(* The silent level on a stream of test events                             *)
(***************************************************************************)

InitSilent == InitAt({verboseNothing})

NextSilent ==
    \/ EndOfInput
    \/ \E l \in HeaderLines : HeaderLine(l)
    \/ \E l \in HeaderLines \cup SilentLines :
          UnparsableLine(l) \/ ParsePanic(l) \/ Record(l)

SpecSilent == InitSilent /\ [][NextSilent]_vars

(***************************************************************************)
(* Vocabulary of the properties                                            *)
(***************************************************************************)

\* the rows written by the step
NewRows == SubSeq(out', Len(out) + 1, Len(out'))

\* rows without the one-time column header
DataRows(rows) == SelectSeq(rows, LAMBDA row : row.rule # "colhdr")

\* what a row shows and the input line it comes from
RowView(rows) == [i \in 1..Len(rows) |-> [text |-> rows[i].text, src |-> rows[i].src]]

AllMassaged(rows) == \A i \in 1..Len(rows) : rows[i].fmt = "massaged"

\* the step is an iteration of the main scan that processed a record
RecordStep == Len(seen') = Len(seen) + 1

\* r carries a decoded event, of a package as a whole or of one test
IsEvent(r) == ~r.testEvent.isnil
IsPackageEvent(r) == IsEvent(r) /\ r.testEvent.te.Test = ""
IsTestEvent(r) == IsEvent(r) /\ r.testEvent.te.Test # ""
ActionOf(r) == r.testEvent.te.Action
PackageOf(r) == r.testEvent.te.Package

\* the output fragments of the "output" events of a buffer, in buffer order,
\* as the rows that show them
FragmentsOf(buf) ==
    RowView([i \in 1..Len(SelectSeq(buf, LAMBDA c : ActionOf(c) = "output")) |->
                LET c == SelectSeq(buf, LAMBDA e : ActionOf(e) = "output")[i]
                IN  [text |-> StripNewline(c.testEvent.te.Output), src |-> c.lineno]])

\* the bytes written so far, line by line
PrintedOut == [i \in 1..Len(out) |-> Printed(out[i])]

(***************************************************************************)
(* Only-failed aggregation (silent level)                                  *)
(***************************************************************************)

\* C1: silent level, an event without test identifier and with action "fail":
\* the step writes the output fragments of all buffered "output" events as
\* massaged rows in buffer order, then the one row "<package> TAB FAIL", and
\* leaves the buffer empty.
C1_PackageFailFlushesBuffer ==
    [][(verbose = verboseNothing /\ RecordStep /\ IsPackageEvent(ll')
            /\ ActionOf(ll') = "fail")
        => /\ RowView(DataRows(NewRows))
                = FragmentsOf(Append(cached, ll'))
                    \o <<[text |-> PackageOf(ll') \o "\tFAIL", src |-> ll'.lineno]>>
           /\ AllMassaged(DataRows(NewRows))
           /\ cached' = <<>>]_vars

\* [output x for A, fail for A] has written the row x and then the row A TAB FAIL
C1_Witness ==
    /\ verbose = verboseNothing
    /\ inp = <<"",
               EvLine("10:00:00", "output", "A", "", ",\"Output\":\"x\\n\""),
               EvLine("10:00:07", "fail", "A", "", ",\"Elapsed\":2")>>
    /\ PrintedOut = <<"", "  ΔT\tTEXT", "    \tx", "   7\tA\tFAIL">>
    /\ cached = <<>>

\* C2: silent level, an event without test identifier: "pass" writes the one
\* row "<package> TAB <elapsed>s", "skip" the one row "<package> TAB [no test
\* files]", an action other than pass, skip, output and fail the one row
\* "<package> TAB <action>", none of them writes a buffered fragment and each
\* empties the buffer; "output" writes nothing and stays in the buffer.
C2_PackageEventRows ==
    [][(verbose = verboseNothing /\ RecordStep /\ IsPackageEvent(ll')
            /\ ActionOf(ll') # "fail")
        => IF ActionOf(ll') = "output"
           THEN NewRows = <<>> /\ cached' = Append(cached, ll')
           ELSE /\ RowView(DataRows(NewRows))
                     = <<[text |-> PackageOf(ll') \o "\t" \o
                                     (CASE ActionOf(ll') = "pass" ->
                                             FormatG(ll'.testEvent.te.Elapsed) \o "s"
                                        [] ActionOf(ll') = "skip" -> "[no test files]"
                                        [] OTHER -> ActionOf(ll')),
                          src |-> ll'.lineno]>>
                /\ AllMassaged(DataRows(NewRows))
                /\ cached' = <<>>]_vars

\* [output x for A, pass for A with elapsed 1.5] has written A TAB 1.5s and not x
C2_Witness ==
    /\ verbose = verboseNothing
    /\ inp = <<"",
               EvLine("10:00:00", "output", "A", "", ",\"Output\":\"x\\n\""),
               EvLine("10:00:07", "pass", "A", "", ",\"Elapsed\":1.5")>>
    /\ PrintedOut = <<"", "  ΔT\tTEXT", "   7\tA\t1.5s">>
    /\ cached = <<>>

\* C3: silent level, an event of one test: "pass" empties the buffer and
\* writes nothing; "fail" writes the output fragment of every buffered
\* "output" event in buffer order, empties the buffer and writes no FAIL row;
\* every other action writes nothing and leaves the buffer as it was with the
\* event appended.
C3_TestEventRows ==
    [][(verbose = verboseNothing /\ RecordStep /\ IsTestEvent(ll'))
        => CASE ActionOf(ll') = "pass" -> NewRows = <<>> /\ cached' = <<>>
             [] ActionOf(ll') = "fail" ->
                  /\ RowView(DataRows(NewRows)) = FragmentsOf(Append(cached, ll'))
                  /\ AllMassaged(DataRows(NewRows))
                  /\ cached' = <<>>
             [] OTHER -> NewRows = <<>> /\ cached' = Append(cached, ll')]_vars

\* a test has failed after two buffered fragments, of the package and of the
\* test: both are written, in arrival order, and no FAIL row
C3_Witness ==
    /\ verbose = verboseNothing
    /\ inp = <<"",
               EvLine("10:00:00", "output", "A", "", ",\"Output\":\"x\\n\""),
               EvLine("10:00:03", "output", "A", "T", ",\"Output\":\"y\\r\\n\""),
               EvLine("10:00:07", "fail", "A", "T", ",\"Elapsed\":0.5")>>
    /\ PrintedOut = <<"", "  ΔT\tTEXT", "    \tx", "   3\ty">>
    /\ cached = <<>>

\* the logline of input line n, among those the main scan has processed
SeenAt(n) == CHOOSE r \in {seen[j] : j \in 1..Len(seen)} : r.lineno = n

\* the event of seen[j] is a "fail" of the test, or of the package, that the
\* event of seen[i] belongs to
FailureOf(i, j) ==
    /\ IsEvent(seen[j])
    /\ ActionOf(seen[j]) = "fail"
    /\ PackageOf(seen[j]) = PackageOf(seen[i])
    /\ seen[j].testEvent.te.Test \in {"", seen[i].testEvent.te.Test}

\* seen[i] and seen[j] are events of the same package and the same test
SameKey(i, j) ==
    /\ IsEvent(seen[i]) /\ IsEvent(seen[j])
    /\ PackageOf(seen[i]) = PackageOf(seen[j])
    /\ seen[i].testEvent.te.Test = seen[j].testEvent.te.Test

\* the stream is complete: every test and package with an event has reported
\* its result
StreamComplete ==
    \A i \in 1..Len(seen) :
        IsEvent(seen[i])
            => \E j \in i..Len(seen) :
                  SameKey(i, j) /\ ActionOf(seen[j]) \in {"pass", "fail", "skip"}

\* C4: silent level, for every sequence of events: the output fragment of an
\* "output" event is written only if the test or package the event belongs
\* to fails later in the input.  Stated of the finished run on a complete
\* stream, where a result that has not arrived cannot excuse a row.
C4_ShownOutputBelongsToFailure ==
    (verbose = verboseNothing /\ pc = "done" /\ StreamComplete)
        => \A k \in 1..Len(out) :
              out[k].rule = "flush"
                  => \E i, j \in 1..Len(seen) :
                        /\ seen[i].lineno = out[k].src
                        /\ i < j
                        /\ FailureOf(i, j)

\* the "output" event seen[i] is still pending for its test (or package) when
\* seen[j] reports on the same test (or package): nothing between them has
\* passed, failed or skipped it
PendingAt(i, j) ==
    /\ i < j
    /\ SameKey(i, j)
    /\ ActionOf(seen[i]) = "output"
    /\ \A m \in (i + 1)..(j - 1) :
          ~(SameKey(i, m) /\ ActionOf(seen[m]) \in {"pass", "fail", "skip"})

\* C5: silent level, for every interleaving: when a test or package reports
\* "fail", every output fragment buffered for it has been written (so before
\* the FAIL row of its package), whatever events of other tests and packages
\* arrived in between.
C5_FailureShowsItsOutput ==
    (verbose = verboseNothing /\ Len(seen) > 0 /\ IsEvent(seen[Len(seen)])
            /\ ActionOf(seen[Len(seen)]) = "fail")
        => \A i \in 1..Len(seen) :
              PendingAt(i, Len(seen))
                  => \E k \in 1..Len(out) :
                        out[k].rule = "flush" /\ out[k].src = seen[i].lineno

(***************************************************************************)
(* The raw level                                                           *)
(***************************************************************************)

\* verbosity 3 and values outside 0..3
RawLevels == {verboseAllText, verboseAllText + 1, verboseNothing - 1}

\* an empty line, noise, a malformed record, both sentinels, a record and an
\* event
RawLines ==
    { "", "Build log", "[10:0", "12 tests processed.", "Current time: Fri",
      Rec("10:00:00", 1, " [Step 2/2]", "+ make test"),
      EvLine("10:00:07", "fail", "A", "", "") }

InitRaw == InitAt(RawLevels)

NextRaw ==
    \/ EndOfInput
    \/ \E l \in RawLines : HeaderLine(l)
    \/ \E l \in RawLines : RawLine(l)

SpecRaw == InitRaw /\ [][NextRaw]_vars

\* C6: the raw level never drops a line: the lines written are the input
\* lines, header included, in order - noise, empty lines, malformed records,
\* the sentinels and the lines after them too - and no line aborts the run.
C6_RawEchoesEveryLine ==
    verbose \notin {verboseNothing, verboseGoTestVerbose, verboseTestOutput}
        => PrintedOut = inp /\ pc # "panic"

\* after the header, a sentinel, a malformed record and an empty line have
\* been echoed
C6_Witness ==
    /\ verbose = verboseAllText + 1
    /\ inp = <<"", "Current time: Fri", "[10:0", "">>
    /\ PrintedOut = inp
    /\ pc = "scan"

(***************************************************************************)
(* The silent and verbose levels: phase gates and the innermost-slot rule  *)
(***************************************************************************)

\* records of the primary build step (plain text, the three markers, the Go
\* version under either spelling of the tag), a record below the step, a
\* record that inherits its path, a root record, and two events
GateLines ==
    { Rec("10:00:00", 1, " [Step 2/2]", "hello"),
      Rec("10:00:01", 1, " [Step 2/2]", "+ dwz --version"),
      Rec("10:00:02", 1, " [Step 2/2]", "+ make test"),
      Rec("10:00:02", 1, " [Step 1/1]", "Finding latest patch"),
      Rec("10:00:03", 1, " [Step 2/2]", "Go version go1.15"),
      Rec("10:00:03", 1, " [Step 1/1]", "Go version go1.15"),
      Rec("10:00:04", 2, " [Step 2/2] [Sub]", "Go below"),
      Rec("10:00:04", 1, "", "inherits"),
      Rec("10:00:05", 0, "", "Go root"),
      EvLine("10:00:06", "output", "A", "T", ",\"Output\":\"y\\n\""),
      EvLine("10:00:07", "fail", "A", "", "") }

InitGate == InitAt({verboseNothing, verboseGoTestVerbose})

NextGate ==
    \/ EndOfInput
    \/ \E l \in {""} : HeaderLine(l)
    \/ \E l \in GateLines : Record(l)

SpecGate == InitGate /\ [][NextGate]_vars

\* rows that are no output of the scan proper: header and sentinel echo
Echoed(row) == row.rule \in {"header", "sentinel"}

\* C7 as claimed: silent level, no row of any kind is written between the
\* end of the header and the first record that sets afterMakeTest.
C7_NoRowBeforeMakeTest ==
    (verbose = verboseNothing /\ ~afterMakeTest)
        => \A k \in 1..Len(out) : Echoed(out[k])

\* C7 amended: silent level, before the first record that sets afterMakeTest
\* the only rows written are text rows of records whose innermost slot is a
\* primary-build-step tag and whose text starts with "Go ", and the rows of
\* the only-failed aggregation (package results, flushed output fragments).
C7_OnlyGoAndEventRowsBeforeMakeTest ==
    (verbose = verboseNothing /\ ~afterMakeTest)
        => \A k \in 1..Len(out) :
              \/ Echoed(out[k])
              \/ out[k].rule \in {"colhdr", "flush", "result"}
              \/ /\ out[k].rule = "text"
                 /\ HasPrefix(out[k].text, "Go ")
                 /\ buildStep(SeenAt(out[k].src).path)

\* before the marker a plain record of the step was suppressed, a "Go "
\* record was shown and a package result was written
C7_Witness ==
    /\ verbose = verboseNothing
    /\ ~afterMakeTest
    /\ inp = <<"",
               Rec("10:00:00", 1, " [Step 2/2]", "hello"),
               Rec("10:00:03", 1, " [Step 2/2]", "Go version go1.15"),
               EvLine("10:00:07", "fail", "A", "", "")>>
    /\ PrintedOut = <<"", "  ΔT\tTEXT", "   3\tGo version go1.15", "   4\tA\tFAIL">>

\* C8 as claimed: verbose level, no row is written between the end of the
\* header and the first record that sets afterDwz.
C8_NoRowBeforeDwz ==
    (verbose = verboseGoTestVerbose /\ ~afterDwz)
        => \A k \in 1..Len(out) : Echoed(out[k])

\* C8 amended: verbose level, before the first record that sets afterDwz no
\* plain text row is written; the output fragments of structured "output"
\* events are written all the same.
C8_OnlyOutputFragmentsBeforeDwz ==
    (verbose = verboseGoTestVerbose /\ ~afterDwz)
        => \A k \in 1..Len(out) :
              Echoed(out[k]) \/ out[k].rule \in {"colhdr", "output"}

\* before the marker plain records of the step were suppressed and the
\* fragment of an "output" event was shown
C8_Witness ==
    /\ verbose = verboseGoTestVerbose
    /\ ~afterDwz
    /\ inp = <<"",
               Rec("10:00:00", 1, " [Step 2/2]", "hello"),
               Rec("10:00:02", 1, " [Step 2/2]", "+ make test"),
               EvLine("10:00:06", "output", "A", "T", ",\"Output\":\"y\\n\"")>>
    /\ PrintedOut = <<"", "  ΔT\tTEXT", "   6\ty">>

\* C9: silent and verbose levels: a record without decoded event is shown as
\* a plain text row only if its innermost path slot is a primary-build-step
\* tag; never a record at root depth or one that has the tag as an ancestor
\* only.
C9_TextRowsOnlyOfInnermostStep ==
    verbose \in {verboseNothing, verboseGoTestVerbose}
        => \A k \in 1..Len(out) :
              (out[k].rule = "text" /\ ~IsEvent(SeenAt(out[k].src)))
                  => buildStep(SeenAt(out[k].src).path)

\* past both markers, a root record and a record below the step were
\* processed and only the marker record itself was shown
C9_Witness ==
    /\ afterDwz /\ afterMakeTest
    /\ Len(seen) = 3
    /\ seen[1].path = <<"Step 1/1">>
    /\ seen[2].path = <<>>
    /\ seen[3].path = <<"Step 2/2", "Sub">>
    /\ \A k \in 1..Len(out) : out[k].rule = "text" => out[k].src = seen[1].lineno

(***************************************************************************)
(* Test-output level                                                       *)
(***************************************************************************)

\* records at root depth, of the primary build step under both spellings,
\* below it, of the other step, outside any step, with "Test Output"
\* innermost (inside and outside the primary build step), an event, and the
\* lines read ahead
TestOutputLines ==
    { Rec("10:00:00", 0, "", "root"),
      Rec("10:00:01", 1, " [Step 2/2]", "compile\n"),
      Rec("10:00:02", 2, " [Step 1/1] [Sub]", "below"),
      Rec("10:00:02", 1, " [Step 1/2]", "checkout"),
      Rec("10:00:03", 1, " [Other]", "elsewhere"),
      Rec("10:00:04", 2, " [Step 2/2] [Test Output]", "TestX"),
      Rec("10:00:04", 2, " [Other] [Test Output]", "TestY"),
      Rec("10:00:05", 2, "", "inherits"),
      EvLine("10:00:06", "fail", "A", "T", "") }

AuxLines == {"--- FAIL: TestX", "[10:00:09] : root"}

InitTestOutput == InitAt({verboseTestOutput})

NextTestOutput ==
    \/ EndOfInput
    \/ \E l \in {""} : HeaderLine(l)
    \/ \E l \in TestOutputLines : Record(l)
    \/ \E l \in TestOutputLines : \E next \in AuxLines : TestOutputRecord(l, next)
    \/ \E l \in TestOutputLines : TestOutputPanic(l)

SpecTestOutput == InitTestOutput /\ [][NextTestOutput]_vars

\* the path holds a primary-build-step tag, at any depth
UnderBuildStep(path) == stackHas(path, "Step 2/2") \/ stackHas(path, "Step 1/1")

\* the rows of rule written for the record seen[i] show exactly text, once
ShownOnce(i, rule, text) ==
    /\ Cardinality({k \in 1..Len(out) :
                        out[k].rule = rule /\ out[k].src = seen[i].lineno}) = 1
    /\ \A k \in 1..Len(out) :
          (out[k].rule = rule /\ out[k].src = seen[i].lineno)
              => out[k].fmt = "massaged" /\ out[k].text = StripNewline(text)

\* C10 as claimed: test-output level, every record at root depth and every
\* record with a primary-build-step tag anywhere in its path is written as
\* one massaged row of its text, unless it carries a decoded event; and the
\* line read ahead for a record with "Test Output" innermost is written as a
\* massaged row.
C10_RootAndStepRecordsShown ==
    verbose = verboseTestOutput
        => \A i \in 1..Len(seen) :
              /\ (~IsEvent(seen[i])
                    /\ (seen[i].path = <<>> \/ UnderBuildStep(seen[i].path)))
                  => ShownOnce(i, "text", seen[i].text)
              /\ topOfStackIs(seen[i].path, "Test Output")
                  => ShownOnce(i, "addtext", seen[i].addtext)

\* C10 amended: as claimed, for the records whose innermost slot is not
\* "Test Output"; of a record with "Test Output" innermost the line read
\* ahead is written as a massaged row.
C10_RootAndStepRecordsButTestOutputShown ==
    verbose = verboseTestOutput
        => \A i \in 1..Len(seen) :
              /\ (~IsEvent(seen[i])
                    /\ ~topOfStackIs(seen[i].path, "Test Output")
                    /\ (seen[i].path = <<>> \/ UnderBuildStep(seen[i].path)))
                  => ShownOnce(i, "text", seen[i].text)
              /\ topOfStackIs(seen[i].path, "Test Output")
                  => ShownOnce(i, "addtext", seen[i].addtext)

\* a record below the step and a "Test Output" record of the step were
\* processed: one text row and the line read ahead were written
C10_Witness ==
    /\ verbose = verboseTestOutput
    /\ inp = <<"",
               Rec("10:00:02", 2, " [Step 1/1] [Sub]", "below"),
               Rec("10:00:04", 2, " [Step 2/2] [Test Output]", "TestX"),
               "--- FAIL: TestX">>
    /\ PrintedOut = <<"", "  ΔT\tTEXT", "    \tbelow", "   2\t--- FAIL: TestX">>

(***************************************************************************)
(* The two spellings of the primary build step                             *)
(***************************************************************************)

\* the text s with every occurrence of from replaced by to
RECURSIVE Replaced(_, _, _)
Replaced(s, from, to) ==
    IF Len(s) < Len(from) THEN s
    ELSE IF HasPrefix(s, from)
         THEN to \o Replaced(DropBytes(s, Len(from)), from, to)
         ELSE SubSeq(s, 1, 1) \o Replaced(DropBytes(s, 1), from, to)

\* the input with the tag from respelled as to on every line
Respelled(lines, from, to) ==
    [i \in 1..Len(lines) |->
        Replaced(lines[i], "[" \o from \o "]", "[" \o to \o "]")]

\* the run f wrote the rows, decoded the events and reached the phase flags
\* of the current state
SameOutcome(f) ==
    /\ [i \in 1..Len(f.out) |-> Printed(f.out[i])] = PrintedOut
    /\ [i \in 1..Len(f.seen) |-> f.seen[i].testEvent]
          = [i \in 1..Len(seen) |-> seen[i].testEvent]
    /\ f.afterDwz = afterDwz
    /\ f.afterMakeTest = afterMakeTest

\* C11: the spellings "Step 2/2" and "Step 1/1" are equivalent: whatever has
\* been read, the run on the same input with every tag "Step 2/2" respelled
\* "Step 1/1", and the run with every "Step 1/1" respelled "Step 2/2", write
\* the same rows, decode the same events and reach the same phase flags.
\* Stated of the levels that do not echo the tags themselves.
C11_SpellingsEquivalent ==
    verbose \in {verboseNothing, verboseGoTestVerbose, verboseTestOutput}
        => /\ SameOutcome(cleanupLog(verbose, Respelled(inp, "Step 2/2", "Step 1/1")))
           /\ SameOutcome(cleanupLog(verbose, Respelled(inp, "Step 1/1", "Step 2/2")))

(***************************************************************************)
(* The event decode                                                        *)
(***************************************************************************)

\* texts that are a JSON object json.Unmarshal accepts into a testEvent
\* with an Action: the plain form, a key in another case, an unknown key
DecodableTexts ==
    { EvJSON("run", "A", "T", ""),
      "{\"action\":\"output\",\"Package\":\"A\",\"Output\":\"y\\n\"}",
      "{\"Action\":\"fail\",\"Package\":\"A\",\"Test\":\"T\",\"Extra\":1}" }

\* texts that start with '{' and are no event: the Action empty, bytes
\* after the object, a string for the number Elapsed
UndecodableTexts ==
    { EvJSON("", "A", "T", ""),
      "{\"Action\":\"run\"} x",
      "{\"Action\":\"run\",\"Elapsed\":\"x\"}" }

\* a text that holds an event and does not start with '{'
PlainTexts == {"x" \o EvJSON("run", "A", "T", "")}

\* each text as a record of the primary build step; an event text under
\* the other spelling and below the step; and the marker that sets both
\* phase flags
EventLines ==
    { Rec("10:00:01", 1, " [Step 2/2]", text) :
        text \in DecodableTexts \cup UndecodableTexts \cup PlainTexts }
    \cup { Rec("10:00:01", 1, " [Step 1/1]", EvJSON("run", "A", "T", "")),
           Rec("10:00:02", 2, " [Step 2/2] [Sub]", EvJSON("run", "A", "T", "")),
           Rec("10:00:00", 1, " [Step 2/2]", "Finding latest patch") }

InitEvents == InitAt({verboseNothing, verboseGoTestVerbose, verboseTestOutput})

NextEvents ==
    \/ EndOfInput
    \/ \E l \in {""} : HeaderLine(l)
    \/ \E l \in EventLines : Record(l)

SpecEvents == InitEvents /\ [][NextEvents]_vars

\* C12: a record carries an event if and only if its innermost path slot
\* after the context update is "Step 2/2" or "Step 1/1" and its text starts
\* with '{', decodes as a testEvent and has a non-empty Action; the event it
\* carries has that Action.
C12_EventIffInnermostStepAndDecodable ==
    \A i \in 1..Len(seen) :
        /\ IsEvent(seen[i])
              <=> /\ Len(seen[i].path) > 0
                  /\ seen[i].path[Len(seen[i].path)] \in {"Step 2/2", "Step 1/1"}
                  /\ seen[i].text \in DecodableTexts
        /\ IsEvent(seen[i])
              => /\ HasPrefix(seen[i].text, "{")
                 /\ ActionOf(seen[i]) \in {"run", "output", "fail"}

\* an event of "Step 1/1", the same text below the step without event, and
\* an object with an empty Action without event
C12_Witness ==
    /\ Len(seen) = 3
    /\ seen[1].path = <<"Step 1/1">> /\ seen[1].text = EvJSON("run", "A", "T", "")
    /\ IsEvent(seen[1]) /\ ActionOf(seen[1]) = "run"
    /\ seen[2].path = <<"Step 2/2", "Sub">> /\ seen[2].text = EvJSON("run", "A", "T", "")
    /\ ~IsEvent(seen[2])
    /\ seen[3].path = <<"Step 2/2">> /\ seen[3].text = EvJSON("", "A", "T", "")
    /\ ~IsEvent(seen[3])

\* the line l with its text replaced by an ordinary word
PlainTwin(l) == SubSeq(l, 1, Len(l) - Len(logparse(l).text)) \o "plain"

\* what rows are, apart from the text they show
RowShape(rows) ==
    [i \in 1..Len(rows) |-> [fmt |-> rows[i].fmt, dt |-> rows[i].dt, rule |-> rows[i].rule]]

\* the step wrote rows of the shape of the rows n wrote, and reached n's flags
SameDisplayAs(n) ==
    /\ RowShape(NewRows) = RowShape(SubSeq(n.out, Len(out) + 1, Len(n.out)))
    /\ afterDwz' = n.afterDwz /\ afterMakeTest' = n.afterMakeTest
    /\ lastTime' = n.lastTime /\ cached' = n.cached

\* C13: a record whose text starts with '{' and that carries no event (the
\* decode failed or gave an empty Action) is handled as an ordinary text
\* record at its position would be: the buffer is left as it was, the rows
\* written are those an ordinary record of the same path would get, and a row
\* written for it is the massaged row of its text.
C13_UndecodedIsOrdinaryText ==
    [][(RecordStep /\ HasPrefix(ll'.text, "{") /\ ~IsEvent(ll'))
        => /\ cached' = cached
           /\ SameDisplayAs(IterationResult(Current, PlainTwin(inp'[Len(inp')]), ""))
           /\ \A k \in 1..Len(DataRows(NewRows)) :
                 /\ DataRows(NewRows)[k].rule = "text"
                 /\ DataRows(NewRows)[k].text = ll'.text]_vars

\* silent level, past the marker: an object with an empty Action was shown
\* as a text row
C13_Witness ==
    /\ verbose = verboseNothing
    /\ inp = <<"",
               Rec("10:00:00", 1, " [Step 2/2]", "Finding latest patch"),
               Rec("10:00:01", 1, " [Step 2/2]", EvJSON("", "A", "T", ""))>>
    /\ PrintedOut = <<"", "  ΔT\tTEXT", "    \tFinding latest patch",
                      "   1\t" \o EvJSON("", "A", "T", "")>>
    /\ cached = <<>>

(***************************************************************************)
(* The context stack                                                       *)
(***************************************************************************)

\* the capacity of the stack and one more
DeepIndent == StackCap + 1

\* records at the depths 0 to 3 with two tags, one tag and none, a record at
\* the capacity of the stack, one beyond it, and one with more tags than
\* indentation
StackLines ==
    { Rec("10:00:00", 0, "", "root"),
      Rec("10:00:01", 2, " [A] [B]", "two"),
      Rec("10:00:02", 2, " [C]", "one"),
      Rec("10:00:03", 3, " [D]", "deeper"),
      Rec("10:00:04", 3, "", "inherits"),
      Rec("10:00:05", 1, "", "shallow"),
      Rec("10:00:06", StackCap, " [E]", "full"),
      Rec("10:00:07", DeepIndent, " [F]", "deep"),
      Rec("10:00:08", 0, " [G]", "tagged root") }

InitStack == InitAt({verboseNothing, verboseTestOutput})

NextStack ==
    \/ EndOfInput
    \/ \E l \in {""} : HeaderLine(l)
    \/ \E l \in StackLines : Record(l)
    \/ \E l \in StackLines : TreeizePanic(l)

SpecStack == InitStack /\ [][NextStack]_vars

\* the step read the one line l of the main scan
ReadsLine(l) == pc = "scan" /\ inp' = Append(inp, l)

\* the line just read, when the step read one
LastRead == inp'[Len(inp')]

\* C14: for every record with indentation d and tags t0..tk, d >= k+1,
\* however deep, the stack after the context update has length d and its
\* last k+1 slots are t0..tk in order.
C14_PathReconstructed ==
    [][(ReadsLine(LastRead)
          /\ logparse(LastRead).status = "ok"
          /\ Len(logparse(LastRead).tags) >= 1
          /\ logparse(LastRead).indent >= Len(logparse(LastRead).tags))
        => /\ pc' # "panic"
           /\ stackLen' = logparse(LastRead).indent
           /\ SubSeq(stack', stackLen' - Len(logparse(LastRead).tags) + 1, stackLen')
                 = logparse(LastRead).tags]_vars

\* the record r wrote label into slot i
Places(r, i, label) ==
    /\ r.indent - Len(r.tags) < i /\ i <= r.indent
    /\ r.tags[i - (r.indent - Len(r.tags))] = label

\* every label in the stack is the tag a record wrote into that slot, and no
\* later record was shallower than the slot or wrote the slot itself
NoLeftOver ==
    \A i \in 1..stackLen :
        stack[i] # ""
            => \E j \in 1..Len(seen) :
                  /\ Places(seen[j], i, stack[i])
                  /\ \A j2 \in (j + 1)..Len(seen) :
                        seen[j2].indent - Len(seen[j2].tags) >= i

\* C15: for a record with indentation d and k tags, k <= d, on a stack of
\* length p: every slot below min(p, d-k) keeps its value, every slot from p
\* up to d-k is the empty label, and no slot shows a label left over from a
\* deeper record that was truncated away.
C15_ContextUpdateFrame ==
    [][(ReadsLine(LastRead)
          /\ logparse(LastRead).status = "ok"
          /\ Len(logparse(LastRead).tags) <= logparse(LastRead).indent)
        => /\ \A i \in 1..stackLen' :
                 /\ (i <= stackLen /\ i <= logparse(LastRead).indent - Len(logparse(LastRead).tags))
                       => stack'[i] = stack[i]
                 /\ (stackLen < i /\ i <= logparse(LastRead).indent - Len(logparse(LastRead).tags))
                       => stack'[i] = ""
           /\ NoLeftOver']_vars

\* after a record two deep, one at root depth and one three deep with one
\* tag, the stack shows two empty slots and the tag
C15_Witness ==
    /\ inp = <<"",
               Rec("10:00:01", 2, " [A] [B]", "two"),
               Rec("10:00:00", 0, "", "root"),
               Rec("10:00:03", 3, " [D]", "deeper")>>
    /\ stack = <<"", "", "D">>
    /\ stackMem[1] = "" /\ stackMem[2] = ""

(***************************************************************************)
(* The main scan: noise, malformed records, look-ahead and sentinels       *)
(***************************************************************************)

\* lines that start with '[' and break the fixed prefix: nothing after '[',
\* a short time field, '-' for ':', no ']', 'x' for ']', no flag, no ':'
\* after the flag
MalformedLines ==
    { "[", "[10:0", "[10-00:00] :x", "[10:00:00", "[10:00:00x :",
      "[10:00:00]", "[10:00:00] x" }

\* lines that do not start with '['
NoiseLines == {"", "noise"}

\* both sentinels, and a sentinel that is shaped like a record
SentinelLines ==
    {"12 tests processed.", "Current time: Fri", "[10:00:09] : 3 tests processed."}

\* the marker that sets both phase flags, a plain record, an "output" event,
\* a record with "Test Output" innermost and one that inherits its path
ScanRecords ==
    { Rec("10:00:00", 1, " [Step 2/2]", "Finding latest patch"),
      Rec("10:00:01", 1, " [Step 2/2]", "hello"),
      EvLine("10:00:02", "output", "A", "T", ",\"Output\":\"y\\n\""),
      Rec("10:00:04", 2, " [Step 2/2] [Test Output]", "TestX"),
      Rec("10:00:05", 2, "", "more") }

ScanLines == MalformedLines \cup NoiseLines \cup SentinelLines \cup ScanRecords

\* the lines read ahead: noise, a line shaped like a record, a sentinel
ScanAuxLines == AuxLines \cup {"Current time: Fri"}

InitScan == InitAt({verboseNothing, verboseGoTestVerbose, verboseTestOutput})

NextScan ==
    \/ EndOfInput
    \/ \E l \in {""} : HeaderLine(l)
    \/ \E l \in ScanLines : TestsProcessed(l)
    \/ \E l \in ScanLines : CurrentTime(l)
    \/ \E l \in ScanLines : UnparsableLine(l)
    \/ \E l \in ScanLines : ParsePanic(l)
    \/ \E l \in ScanLines : Record(l)
    \/ \E l \in ScanLines : \E next \in ScanAuxLines : TestOutputRecord(l, next)
    \/ \E l \in ScanLines : TestOutputPanic(l)

SpecScan == InitScan /\ [][NextScan]_vars

NonRaw == verbose \in {verboseNothing, verboseGoTestVerbose, verboseTestOutput}

\* l is one of the two sentinel lines
IsSentinel(l) == HasSuffix(l, " tests processed.") \/ HasPrefix(l, "Current time: ")

\* the input line a row shows: the line read ahead for the row of an addtext
LineOf(row) == IF row.rule = "addtext" THEN row.src + 1 ELSE row.src

\* what the main scan keeps from one record to the next
ScanState == <<afterDwz, afterMakeTest, stackMem, stackLen, lastTime, cached>>

\* C16 as claimed: non-raw levels, a line read by the main scan that does
\* not start with '[' is shown in no row, and reading it changes neither the
\* phase flags, nor the stack, nor the delta reference time, nor the buffer.
C16_NoiseLeavesNoTrace ==
    [][(NonRaw /\ pc = "scan")
        => \A i \in (Len(inp) + 1)..Len(inp') :
              ~HasPrefix(inp'[i], "[")
                  => /\ \A k \in 1..Len(NewRows) : LineOf(NewRows[k]) # i
                     /\ Len(inp') = Len(inp) + 1 => UNCHANGED ScanState]_vars

\* C16 amended: the same of a line that is neither a sentinel nor read ahead
\* as the addtext of a "Test Output" record.
C16_PlainNoiseLeavesNoTrace ==
    [][(NonRaw /\ ReadsLine(LastRead)
          /\ ~HasPrefix(LastRead, "[") /\ ~IsSentinel(LastRead))
        => out' = out /\ UNCHANGED ScanState]_vars

\* test-output level: after a record was shown a noise line was read, and
\* nothing was written for it
C16_Witness ==
    /\ verbose = verboseTestOutput
    /\ pc = "scan"
    /\ inp = <<"", Rec("10:00:01", 1, " [Step 2/2]", "hello"), "noise">>
    /\ PrintedOut = <<"", "  ΔT\tTEXT", "    \thello">>
    /\ stack = <<"Step 2/2">>

\* C17: for every line that does not begin with '[', the empty line
\* included, logparse returns nil, and the main scan goes on to the next line
\* without a row and without a record.
C17_NoiseIsSkipped ==
    [][(NonRaw /\ ReadsLine(LastRead)
          /\ ~HasPrefix(LastRead, "[") /\ ~IsSentinel(LastRead))
        => /\ logparse(LastRead).status = "nil"
           /\ pc' = "scan"
           /\ out' = out /\ seen' = seen]_vars

\* the fixed prefix of a record: "[HH:MM:SS]", a flag character, ':'
PrefixGrammar(l) ==
    /\ Len(l) >= 12
    /\ ByteAt(l, 0) = "[" /\ ByteAt(l, 3) = ":" /\ ByteAt(l, 6) = ":"
    /\ ByteAt(l, 9) = "]" /\ ByteAt(l, 11) = ":"

\* C18: a line that begins with '[' and breaks the fixed prefix aborts the
\* run: no record is made of it, nothing is written for it, what was written
\* stands, and no line is read after it.
C18_MalformedRecordAborts ==
    [][/\ (NonRaw /\ ReadsLine(LastRead) /\ HasPrefix(LastRead, "[")
             /\ ~IsSentinel(LastRead) /\ ~PrefixGrammar(LastRead))
          => pc' = "panic" /\ out' = out /\ seen' = seen /\ UNCHANGED ScanState
       /\ pc = "panic" => UNCHANGED vars]_vars

\* test-output level: a record was shown, then a line without ':' after the
\* flag aborted the run
C18_Witness ==
    /\ verbose = verboseTestOutput
    /\ pc = "panic"
    /\ inp = <<"", Rec("10:00:01", 1, " [Step 2/2]", "hello"), "[10:00:00] x">>
    /\ PrintedOut = <<"", "  ΔT\tTEXT", "    \thello">>
    /\ Len(seen) = 1

\* C19: when the innermost slot after the context update is "Test Output",
\* on the record's own tag or inherited, the next line is read as the
\* record's addtext and is no record of its own; when no line follows, the
\* run aborts.
C19_TestOutputReadsAhead ==
    [][(NonRaw /\ pc = "scan")
        => /\ (RecordStep /\ topOfStackIs(stack', "Test Output"))
              => /\ Len(inp') = Len(inp) + 2
                 /\ Len(seen') = Len(seen) + 1
                 /\ ll'.raw = inp'[Len(inp) + 1]
                 /\ ll'.lineno = Len(inp) + 1
                 /\ ll'.addtext = inp'[Len(inp) + 2]
           /\ (RecordStep /\ ~topOfStackIs(stack', "Test Output"))
              => Len(inp') = Len(inp) + 1 /\ ll'.addtext = ""
           /\ (Len(inp') = Len(inp) + 1 /\ ~IsSentinel(LastRead)
                 /\ logparse(LastRead).status = "ok"
                 /\ topOfStackIs(stack', "Test Output"))
              => pc' = "panic" /\ seen' = seen /\ out' = out]_vars

\* a "Test Output" record took the next line, then a record that inherits
\* the slot found no line to take
C19_Witness ==
    /\ pc = "panic"
    /\ inp = <<"",
               Rec("10:00:04", 2, " [Step 2/2] [Test Output]", "TestX"),
               "[10:00:09] : root",
               Rec("10:00:05", 2, "", "more")>>
    /\ Len(seen) = 1
    /\ seen[1].addtext = "[10:00:09] : root"
    /\ stack = <<"Step 2/2", "Test Output">>

\* C20: non-raw levels, the main scan stops at the first line, not read
\* ahead as addtext, that ends with " tests processed." or begins with
\* "Current time: ": the line is echoed, nothing else is written, the buffer
\* is not flushed, and no line is read after it; a sentinel read ahead as
\* addtext does not stop the scan.
C20_SentinelStopsScan ==
    [][/\ (NonRaw /\ ReadsLine(LastRead) /\ IsSentinel(LastRead))
          => /\ pc' = "done"
             /\ NewRows = <<Verbatim(LastRead, "sentinel", Len(inp) + 1)>>
             /\ seen' = seen
             /\ UNCHANGED ScanState
       /\ (NonRaw /\ pc = "scan" /\ Len(inp') = Len(inp) + 2) => pc' = "scan"
       /\ pc = "done" => UNCHANGED vars]_vars

\* silent level: an "output" event was buffered, the sentinel was echoed and
\* the scan ended with the event still in the buffer
C20_Witness ==
    /\ verbose = verboseNothing
    /\ pc = "done"
    /\ inp = <<"",
               EvLine("10:00:02", "output", "A", "T", ",\"Output\":\"y\\n\""),
               "12 tests processed.">>
    /\ PrintedOut = <<"", "12 tests processed.">>
    /\ Len(cached) = 1

(***************************************************************************)
(* The header phase                                                        *)
(***************************************************************************)

\* header lines: the empty line, plain text, a record that is a phase marker
\* under a primary build step, both sentinels and a malformed record
HeaderPhaseLines ==
    { "", "Build log", "[10:0", "12 tests processed.", "Current time: Fri",
      Rec("10:00:02", 1, " [Step 2/2]", "+ make test") }

\* the four verbosity levels
AllLevels == {verboseNothing, verboseGoTestVerbose, verboseTestOutput, verboseAllText}

InitHeader == InitAt(AllLevels)

NextHeader ==
    \/ EndOfInput
    \/ \E l \in HeaderPhaseLines : HeaderLine(l)
    \/ \E l \in HeaderPhaseLines : RawLine(l)
    \/ \E l \in HeaderPhaseLines : Record(l)

SpecHeader == InitHeader /\ [][NextHeader]_vars

\* C21: at each of the four levels every line up to and including the first
\* empty line is echoed as it is and is not parsed: a header line, a record
\* or a sentinel by its look included, leaves the stack, the phase flags and
\* the delta reference alone and the header ends at the empty line only;
\* with no empty line the whole input is header and the run ends with no
\* record processed.
C21_HeaderEchoedNeverParsed ==
    [][pc = "header"
        => /\ UNCHANGED <<stackMem, stackLen, afterDwz, afterMakeTest, lastTime,
                          first, firstMassaged, cached, seen>>
           /\ \/ /\ Len(inp') = Len(inp) + 1
                 /\ inp' = Append(inp, LastRead)
                 /\ NewRows = <<Verbatim(LastRead, "header", Len(inp) + 1)>>
                 /\ pc' = IF LastRead = "" THEN "scan" ELSE "header"
              \/ /\ inp' = inp
                 /\ out' = out
                 /\ pc' = "done"
           /\ PrintedOut' = inp'
           /\ seen' = <<>>]_vars

\* silent level: a marker record and a sentinel came before the empty line;
\* all four lines were echoed, the scan is about to start with the phase
\* flag unset and the stack empty
C21_Witness ==
    /\ verbose = verboseNothing
    /\ pc = "scan"
    /\ inp = <<"Build log", Rec("10:00:02", 1, " [Step 2/2]", "+ make test"),
               "Current time: Fri", "">>
    /\ PrintedOut = inp
    /\ ~afterMakeTest
    /\ stackLen = 0
    /\ seen = <<>>

(***************************************************************************)
(* The phase flags                                                         *)
(***************************************************************************)

\* an ordinary record, the three markers under both spellings of the
\* primary build step, and the "+ make test" text at the root, below the
\* step, under another step and on a record that inherits its path
MarkerLines ==
    { Rec("10:00:00", 1, " [Step 2/2]", "hello"),
      Rec("10:00:01", 1, " [Step 2/2]", "+ dwz --version"),
      Rec("10:00:02", 1, " [Step 1/1]", "+ make test"),
      Rec("10:00:02", 1, " [Step 2/2]", "+ make test -v"),
      Rec("10:00:03", 1, " [Step 2/2]", "Finding latest patch"),
      Rec("10:00:04", 0, "", "+ make test"),
      Rec("10:00:04", 2, " [Step 2/2] [Sub]", "+ make test"),
      Rec("10:00:05", 1, " [Step 1/2]", "+ make test"),
      Rec("10:00:06", 1, "", "+ make test") }

InitMarkers == InitAt({verboseNothing, verboseGoTestVerbose})

NextMarkers ==
    \/ EndOfInput
    \/ \E l \in {""} : HeaderLine(l)
    \/ \E l \in MarkerLines : Record(l)

SpecMarkers == InitMarkers /\ [][NextMarkers]_vars

\* C22: a phase flag that is true stays true: no step of a run takes
\* afterDwz or afterMakeTest from true to false.
C22_FlagsMonotonic ==
    [][(afterDwz => afterDwz') /\ (afterMakeTest => afterMakeTest')]_vars

\* both flags were set by the "Finding latest patch" marker and an ordinary
\* record was processed after it
C22_Witness ==
    /\ inp = <<"", Rec("10:00:03", 1, " [Step 2/2]", "Finding latest patch"),
               Rec("10:00:00", 1, " [Step 2/2]", "hello")>>
    /\ Len(seen) = 2
    /\ afterDwz
    /\ afterMakeTest

\* C23: once a record whose text starts with "+ make test" has been
\* processed afterMakeTest is true, whatever the record's context path.
C23_MakeTestSetsFlagAnywhere ==
    [][(RecordStep /\ HasPrefix(ll'.text, "+ make test")) => afterMakeTest']_vars

\* C23, amended: a record whose innermost path slot is a primary build step
\* and whose text starts with "+ make test" sets afterMakeTest; a record
\* anywhere else leaves the flag as it was, whatever its text.
C23_MakeTestSetsFlagInBuildStep ==
    [][RecordStep
        => /\ (buildStep(ll'.path) /\ HasPrefix(ll'.text, "+ make test"))
                => afterMakeTest'
           /\ ~buildStep(ll'.path) => afterMakeTest' = afterMakeTest]_vars

\* "+ make test" at the root left the flag unset, the same text under
\* "Step 1/1" set it
C23_Witness ==
    /\ inp = <<"", Rec("10:00:04", 0, "", "+ make test"),
               Rec("10:00:02", 1, " [Step 1/1]", "+ make test")>>
    /\ Len(seen) = 2
    /\ seen[1].path = <<>>
    /\ seen[2].path = <<"Step 1/1">>
    /\ afterMakeTest
    /\ ~afterDwz

(***************************************************************************)
(* Emitting a record                                                       *)
(***************************************************************************)

\* records that several display rules match: at the root, under the
\* secondary step, under both steps, under both spellings of the primary
\* step, and "Go " records of the primary step; a marker and an event
LatchLines ==
    { Rec("10:00:00", 0, "", "root"),
      Rec("10:00:01", 1, " [Step 1/2]", "checkout"),
      Rec("10:00:02", 2, " [Step 1/2] [Step 2/2]", "both steps"),
      Rec("10:00:03", 2, " [Step 1/1] [Step 2/2]", "both spellings"),
      Rec("10:00:04", 1, " [Step 2/2]", "Finding latest patch"),
      Rec("10:00:05", 1, " [Step 2/2]", "Go version go1.15"),
      Rec("10:00:06", 1, " [Step 1/1]", "Go test"),
      EvLine("10:00:07", "fail", "A", "", "") }

InitLatch == InitAt({verboseNothing, verboseTestOutput})

NextLatch ==
    \/ EndOfInput
    \/ \E l \in {""} : HeaderLine(l)
    \/ \E l \in LatchLines : Record(l)

SpecLatch == InitLatch /\ [][NextLatch]_vars

\* the rows that show the text, or the raw line, of the record of line n
OwnRows(n) == {k \in 1..Len(out) : out[k].rule \in {"text", "raw"} /\ out[k].src = n}

\* C24: the text of a record, or its raw line, is written at most once,
\* however many of the display rules (root, "Step 1/2", primary step, "Go ")
\* the record matches.
C24_OwnTextAtMostOnce ==
    \A n \in 1..Len(inp) : Cardinality(OwnRows(n)) <= 1

\* level 2: a record under "Step 1/2" and "Step 2/2" matches the rule of
\* either step and is shown once
C24_Witness ==
    /\ verbose = verboseTestOutput
    /\ inp = <<"", Rec("10:00:02", 2, " [Step 1/2] [Step 2/2]", "both steps")>>
    /\ stackHas(stack, "Step 1/2")
    /\ stackHas(stack, "Step 2/2")
    /\ PrintedOut = <<"", "  ΔT\tTEXT", "    \tboth steps">>

(***************************************************************************)
(* The delta column                                                        *)
(***************************************************************************)

\* the massaged rows written so far, and the one before row k
MassagedRows == {k \in 1..Len(out) : out[k].fmt = "massaged"}
EarlierRows(k) == {j \in MassagedRows : j < k}
PreviousRow(k) == CHOOSE j \in EarlierRows(k) : \A i \in EarlierRows(k) : i <= j

\* the time of the record row k comes from
RowTime(k) == SeenAt(out[k].src).time

\* a positive number of seconds, right-aligned in four columns
DeltaField(d) ==
    IF d <= 0 THEN "    "
    ELSE IF d < 10 THEN "   " \o ToString(d)
    ELSE IF d < 100 THEN "  " \o ToString(d)
    ELSE IF d < 1000 THEN " " \o ToString(d)
    ELSE " " \o ToString(d)

\* C25: the delta field of a massaged row is the time of the row's record
\* minus the time of the record of the massaged row written before it, when
\* that is positive, and blank otherwise; records processed in between
\* without a row do not count.
C25_DeltaSincePreviousRow ==
    \A k \in MassagedRows :
        EarlierRows(k) # {}
            => out[k].dt = DeltaField(RowTime(k) - RowTime(PreviousRow(k)))

\* level 1: a row at 10:00:01, a root record at 10:00:05 that is not shown,
\* a row at 10:00:06 with delta 5
C25_Witness ==
    /\ verbose = verboseGoTestVerbose
    /\ inp = <<"", Rec("10:00:01", 1, " [Step 2/2]", "+ dwz --version"),
               Rec("10:00:05", 0, "", "Go root"),
               EvLine("10:00:06", "output", "A", "T", ",\"Output\":\"y\\n\"")>>
    /\ Len(seen) = 3
    /\ PrintedOut = <<"", "  ΔT\tTEXT", "    \t+ dwz --version", "   5\ty">>

(***************************************************************************)
(* logparse: tags and text                                                 *)
(***************************************************************************)

\* a tag token: "[label]", after one space or not
Tok(sp, label) == [sp |-> sp, label |-> label]
TokText(t) == (IF t.sp THEN " " ELSE "") \o "[" \o t.label \o "]"

RECURSIVE TokTexts(_)
TokTexts(toks) ==
    IF toks = <<>> THEN "" ELSE TokText(Head(toks)) \o TokTexts(Tail(toks))

\* lines made of a prefix, two tabs, tag tokens and a remainder: none, one
\* and two tags, an empty label, remainders with and without a leading
\* space, with brackets inside, and with a '[' that is never closed
ParseCases ==
    { [toks |-> <<>>, rem |-> "hello"],
      [toks |-> <<Tok(TRUE, "A")>>, rem |-> " hello"],
      [toks |-> <<Tok(FALSE, "A"), Tok(TRUE, "B")>>, rem |-> "x [y]"],
      [toks |-> <<Tok(TRUE, "")>>, rem |-> "  two"],
      [toks |-> <<Tok(TRUE, "A"), Tok(TRUE, "B")>>, rem |-> ""],
      [toks |-> <<>>, rem |-> " ] x"],
      [toks |-> <<>>, rem |-> "[open"],
      [toks |-> <<Tok(TRUE, "A")>>, rem |-> " [open"] }

CaseLine(c) == "[10:00:00] :" \o Tabs(2) \o TokTexts(c.toks) \o c.rem

ParseLines == {CaseLine(c) : c \in ParseCases}

InitParse == InitAt({verboseNothing, verboseTestOutput})

NextParse ==
    \/ EndOfInput
    \/ \E l \in {""} : HeaderLine(l)
    \/ \E l \in ParseLines : Record(l)

SpecParse == InitParse /\ [][NextParse]_vars

\* the labels of the tokens, in order, and the remainder from the first
\* position after an optional space
CaseTags(c) == [i \in 1..Len(c.toks) |-> c.toks[i].label]
CaseText(c) == IF HasPrefix(c.rem, " ") THEN DropBytes(c.rem, 1) ELSE c.rem

\* C26: the tags of a record are the labels of its "[label]" tokens in
\* order, and its text is the rest of the line from the first position,
\* after an optional space, where no complete token begins - a '[' that is
\* never closed included in the text.
C26_TagsThenText ==
    \A i \in 1..Len(seen) :
        \E c \in ParseCases :
            /\ seen[i].raw = CaseLine(c)
            /\ seen[i].tags = CaseTags(c)
            /\ seen[i].text = CaseText(c)

(***************************************************************************)
(* logparse: the timestamp                                                 *)
(***************************************************************************)

\* well-formed prefixes: two-digit fields, the largest fields, fields that
\* are no number, and fields made of a sign and a digit
TimeLines ==
    { "[10:00:07] : a", "[99:99:99] : b", "[00:00:00] : c", "[xx:00:05] : d",
      "[1x: 5:07] : e", "[-1:00:00] : f", "[00:-5:+3] : g" }

InitTime == InitAt({verboseGoTestVerbose, verboseTestOutput})

NextTime ==
    \/ EndOfInput
    \/ \E l \in {""} : HeaderLine(l)
    \/ \E l \in TimeLines : Record(l)

SpecTime == InitTime /\ [][NextTime]_vars

\* the value of a two-character field: the number two digits denote, 0 for
\* anything else
IsDigit(c) == c \in {"0", "1", "2", "3", "4", "5", "6", "7", "8", "9"}
FieldValue(f) ==
    IF IsDigit(ByteAt(f, 0)) /\ IsDigit(ByteAt(f, 1))
    THEN 10 * DigitVal(ByteAt(f, 0)) + DigitVal(ByteAt(f, 1))
    ELSE 0

\* the three fields of the prefix "[HH:MM:SS]" of a line
HourOf(l) == SubSeq(l, 2, 3)
MinuteOf(l) == SubSeq(l, 5, 6)
SecondOf(l) == SubSeq(l, 8, 9)

MaxTime == 99 * 3600 + 99 * 60 + 99

\* C27: the time of a record is hour*3600 + minute*60 + second of its
\* prefix, a field that is not a two-digit number counting as 0, and so lies
\* in 0..(99*3600 + 99*60 + 99).
C27_TimeFromPrefix ==
    \A i \in 1..Len(seen) :
        /\ seen[i].time = FieldValue(HourOf(seen[i].raw)) * 3600
                          + FieldValue(MinuteOf(seen[i].raw)) * 60
                          + FieldValue(SecondOf(seen[i].raw))
        /\ seen[i].time \in 0..MaxTime

(***************************************************************************)
(* Termination                                                             *)
(***************************************************************************)

\* noise, the empty line, both sentinels, a malformed record, a record, a
\* record with "Test Output" innermost and a record with a tag at depth 0
RunLines ==
    { "noise", "", "12 tests processed.", "Current time: Fri", "[10:0",
      Rec("10:00:01", 1, " [Step 2/2]", "hello"),
      Rec("10:00:04", 2, " [Step 2/2] [Test Output]", "TestX"),
      Rec("10:00:08", 0, " [G]", "tagged root") }

InitRun == InitAt(AllLevels)

NextRun ==
    \/ EndOfInput
    \/ \E l \in HeaderLines : HeaderLine(l)
    \/ \E l \in RunLines : RawLine(l)
    \/ \E l \in RunLines : TestsProcessed(l)
    \/ \E l \in RunLines : CurrentTime(l)
    \/ \E l \in RunLines : UnparsableLine(l)
    \/ \E l \in RunLines : ParsePanic(l)
    \/ \E l \in RunLines : TreeizePanic(l)
    \/ \E l \in RunLines : Record(l)
    \/ \E l \in RunLines : \E next \in AuxLines : TestOutputRecord(l, next)
    \/ \E l \in RunLines : TestOutputPanic(l)

\* the run is one thread that keeps going until it returns or aborts
SpecRun == InitRun /\ [][NextRun]_vars /\ WF_vars(NextRun)

\* the input read so far stays read, and one or two more lines are read
Consumes ==
    /\ Len(inp') \in {Len(inp) + 1, Len(inp) + 2}
    /\ SubSeq(inp', 1, Len(inp)) = inp

Terminated == pc \in {"done", "panic"}

\* C28: every step of a run is taken by the header loop or the main scan
\* and either reads one line, or two for the "Test Output" look-ahead,
\* beyond the lines read before, or finds the input exhausted and ends the
\* run; a run that has ended takes no step; and every run over a finite
\* input ends, by exhaustion, a sentinel or an abort.
C28_Terminates ==
    /\ [][/\ pc \in {"header", "scan"}
          /\ \/ Consumes
             \/ inp' = inp /\ pc' = "done"]_vars
    /\ <>Terminated

\* level 2: the look-ahead took two lines in one step, then a sentinel
\* ended the run
C28_Witness ==
    /\ verbose = verboseTestOutput
    /\ pc = "done"
    /\ inp = <<"", Rec("10:00:04", 2, " [Step 2/2] [Test Output]", "TestX"),
               "--- FAIL: TestX", "12 tests processed.">>
    /\ Len(seen) = 1

(***************************************************************************)
(* Flushing the buffer                                                     *)
(***************************************************************************)

\* the rows that show the buffered output fragment of the event of line n
FlushRows(n) == {k \in 1..Len(out) : out[k].rule = "flush" /\ out[k].src = n}

\* C29: silent level, no output fragment is written twice in a run: what a
\* test-level "fail" has flushed, the package-level "fail" after it does not
\* write again.
C29_FragmentFlushedAtMostOnce ==
    verbose = verboseNothing
        => \A n \in 1..Len(inp) : Cardinality(FlushRows(n)) <= 1

\* the "fail" of test T flushed the fragment "y"; the "fail" of package A
\* after it wrote the FAIL row alone
C29_Witness ==
    /\ verbose = verboseNothing
    /\ inp = <<"",
               EvLine("10:00:03", "output", "A", "T", ",\"Output\":\"y\\r\\n\""),
               EvLine("10:00:07", "fail", "A", "T", ",\"Elapsed\":0.5"),
               EvLine("10:00:07", "fail", "A", "", ",\"Elapsed\":2")>>
    /\ PrintedOut = <<"", "  ΔT\tTEXT", "    \ty", "   4\tA\tFAIL">>
    /\ Cardinality(FlushRows(2)) = 1
    /\ cached = <<>>

(***************************************************************************)
(* treeize within the stack                                                *)
(***************************************************************************)

\* C30: the context update completes for every record logparse returns,
\* whatever its indentation and number of tags and whatever the stack: no
\* step that reads a record line aborts the run.
C30_TreeizeCompletes ==
    [][(pc = "scan" /\ Len(inp') = Len(inp) + 1
          /\ logparse(LastRead).status = "ok")
        => pc' # "panic"]_vars

(***************************************************************************)
(* The line read ahead                                                     *)
(***************************************************************************)

\* a record of the primary build step, a phase marker, a record with
\* "Test Output" innermost and one that inherits its path
AheadRecords ==
    { Rec("10:00:00", 1, " [Step 2/2]", "hello"),
      Rec("10:00:02", 1, " [Step 2/2]", "+ make test"),
      Rec("10:00:04", 2, " [Step 2/2] [Test Output]", "TestX"),
      Rec("10:00:05", 2, "", "more") }

\* lines read ahead: plain text, a record that is a phase marker, both
\* sentinels, the empty line and a record with a tag at depth 0
AheadLines ==
    { "--- FAIL: TestX",
      Rec("10:00:07", 1, " [Step 2/2]", "Finding latest patch"),
      "Current time: Fri", "12 tests processed.", "",
      Rec("10:00:08", 0, " [G]", "tagged root") }

InitAhead == InitAt({verboseNothing, verboseGoTestVerbose, verboseTestOutput})

NextAhead ==
    \/ EndOfInput
    \/ \E l \in {""} : HeaderLine(l)
    \/ \E l \in AheadRecords : Record(l)
    \/ \E l \in AheadRecords : \E next \in AheadLines : TestOutputRecord(l, next)
    \/ \E l \in AheadRecords : TestOutputPanic(l)

SpecAhead == InitAhead /\ [][NextAhead]_vars

\* the lines that were read ahead, and the input with "x" in their place
AheadAt == {seen[i].lineno + 1 : i \in {j \in 1..Len(seen) :
                                        topOfStackIs(seen[j].path, "Test Output")}}
PlainAhead == [i \in 1..Len(inp) |-> IF i \in AheadAt THEN "x" ELSE inp[i]]

\* rows, the text of the rows that show a line read ahead left out
ApartFromAhead(rows) ==
    [i \in 1..Len(rows) |->
        IF rows[i].rule = "addtext" THEN [rows[i] EXCEPT !.text = ""] ELSE rows[i]]

\* the state is that of the run on PlainAhead, the text of the rows of the
\* lines read ahead apart
AheadFrame ==
    /\ \A k \in 1..Len(out) :
          /\ out[k].src \notin AheadAt
          /\ out[k].rule = "addtext" => verbose = verboseTestOutput
    /\ \E f \in {cleanupLog(verbose, PlainAhead)} :
          /\ f.nread = Len(inp)
          /\ f.stackMem = stackMem
          /\ f.stackLen = stackLen
          /\ f.afterDwz = afterDwz
          /\ f.afterMakeTest = afterMakeTest
          /\ f.lastTime = lastTime
          /\ f.cached = cached
          /\ ApartFromAhead(f.out) = ApartFromAhead(out)

\* C31: the line read ahead after a "Test Output" record is not interpreted:
\* whatever it is, the run has the stack, the phase flags, the buffer and
\* the rows - but for the text of the rows of the show-test-output rule -
\* of the run with "x" in its place; no row comes from the line as a record
\* or a sentinel, and it is shown at the test-output level only; the step
\* that reads it leaves the scan running.
C31_LineReadAheadNotInterpreted ==
    /\ []AheadFrame
    /\ [][Len(inp') = Len(inp) + 2 => pc' = "scan"]_vars

\* level 0: the line read ahead was a phase marker under "Step 2/2"; the
\* flags are unset, the stack is the record's, and the scan went on to a
\* record that is not shown
C31_Witness ==
    /\ verbose = verboseNothing
    /\ pc = "scan"
    /\ inp = <<"", Rec("10:00:04", 2, " [Step 2/2] [Test Output]", "TestX"),
               Rec("10:00:07", 1, " [Step 2/2]", "Finding latest patch"),
               Rec("10:00:00", 1, " [Step 2/2]", "hello")>>
    /\ Len(seen) = 2
    /\ ~afterDwz
    /\ ~afterMakeTest
    /\ PrintedOut = <<"">>

(***************************************************************************)
(* The "Go " rule                                                          *)
(***************************************************************************)

\* the step processed a record of the primary build step whose text starts
\* with "Go "
GoRecordStep == RecordStep /\ buildStep(ll'.path) /\ HasPrefix(ll'.text, "Go ")

\* C32: silent level, a record whose innermost slot is "Step 2/2" or
\* "Step 1/1" and whose text starts with "Go " is written as one massaged
\* row of its text, before the "make test" marker as after it; the verbose
\* level has no such rule: there the record is not written before the dwz
\* marker.
C32_GoRecordShownOnce ==
    [][GoRecordStep
        => /\ verbose = verboseNothing
                => /\ Len(DataRows(NewRows)) = 1
                   /\ AllMassaged(DataRows(NewRows))
                   /\ RowView(DataRows(NewRows))
                        = <<[text |-> ll'.text, src |-> ll'.lineno]>>
           /\ (verbose = verboseGoTestVerbose /\ ~afterDwz') => NewRows = <<>>]_vars

\* silent level: the record under "Step 1/1" was shown before the marker,
\* the one under "Step 2/2" after it
C32_Witness ==
    /\ verbose = verboseNothing
    /\ inp = <<"", Rec("10:00:03", 1, " [Step 1/1]", "Go version go1.15"),
               Rec("10:00:02", 1, " [Step 2/2]", "+ make test"),
               Rec("10:00:03", 1, " [Step 2/2]", "Go version go1.15")>>
    /\ PrintedOut = <<"", "  ΔT\tTEXT", "    \tGo version go1.15",
                      "    \t+ make test", "   1\tGo version go1.15">>

(***************************************************************************)
(* The FAIL row outside the only-failed aggregation                        *)
(***************************************************************************)

\* "fail" events of a test and of a package, under either spelling of the
\* primary build step and with "Step 1/2" above it; a "fail" text below the
\* step, which is no event; a "pass" and an "output" event; a plain record
\* and the marker that sets both phase flags
FailLines ==
    { EvLine("10:00:07", "fail", "A", "T", ",\"Elapsed\":0.5"),
      EvLine("10:00:08", "fail", "A", "", ""),
      Rec("10:00:08", 1, " [Step 1/1]", EvJSON("fail", "B", "", "")),
      Rec("10:00:09", 2, " [Step 1/2] [Step 2/2]", EvJSON("fail", "C", "", "")),
      Rec("10:00:09", 2, " [Step 2/2] [Sub]", EvJSON("fail", "D", "", "")),
      EvLine("10:00:05", "pass", "A", "T", ""),
      EvLine("10:00:03", "output", "A", "T", ",\"Output\":\"y\\n\""),
      Rec("10:00:01", 1, " [Step 2/2]", "hello"),
      Rec("10:00:00", 1, " [Step 2/2]", "Finding latest patch") }

InitFail == InitAt({verboseNothing, verboseGoTestVerbose, verboseTestOutput})

NextFail ==
    \/ EndOfInput
    \/ \E l \in {""} : HeaderLine(l)
    \/ \E l \in FailLines : Record(l)

SpecFail == InitFail /\ [][NextFail]_vars

\* the step processed a decoded event with action "fail"
FailEventStep == RecordStep /\ IsEvent(ll') /\ ActionOf(ll') = "fail"

\* C33: test-output level, a decoded "fail" event, of a test or of a
\* package, writes the one massaged row "FAIL TAB <package>" and nothing
\* else, its JSON text not being shown; at the silent and the verbose level
\* no event writes a row of that form.
C33_FailRowAtTestOutputLevelOnly ==
    [][FailEventStep
        => /\ verbose = verboseTestOutput
                => /\ AllMassaged(DataRows(NewRows))
                   /\ RowView(DataRows(NewRows))
                        = <<[text |-> "FAIL\t" \o PackageOf(ll'), src |-> ll'.lineno]>>
           /\ verbose \in {verboseNothing, verboseGoTestVerbose}
                => \A k \in 1..Len(NewRows) :
                      NewRows[k].text # "FAIL\t" \o PackageOf(ll')]_vars

=============================================================================
